---- MODULE Spec2Model ----
(***************************************************************************)
(* A model of the bigWig write pipeline of bigtools.                       *)
(*                                                                         *)
(*   SpecChrom  BigWigWrite::process_chrom on one chromosome: validation,  *)
(*              the running summary, the zoom ladder, primary batching.    *)
(*   SpecWrite  the coordinator loop of write_vals over the chromosomes of *)
(*              the input, folding the chromosome summaries.               *)
(*   SpecStream one section stream of one chromosome: the processor sends  *)
(*              section futures, the encoder tasks finish in any order,    *)
(*              create_do_write consumes the channel.                      *)
(*   SpecPipe   the chromosomes of a run side by side: the parallel        *)
(*              iterator, the processors, the coordinator of write_vals    *)
(*              and the assembly of the file by write and write_zooms.     *)
(*   SpecBuffer one TempFileBuffer: its producer against switch.           *)
(*   SpecRTree  get_rtreeindex over a stream of sections.                  *)
(*                                                                         *)
(* Option values are encoded as sequences: <<>> is None, <<v>> is Some(v). *)
(***************************************************************************)
EXTENDS Integers, Sequences, FiniteSets, TLC

\* ------------------------------------------------------------------ bounds
\* Positions of the records the source may yield are 0..MaxPos.
MaxPos == 5
\* The source yields at most MaxRecs records for a chromosome.
MaxRecs == 3
\* options.items_per_slot ranges over 1..MaxItemsPerSlot.
MaxItemsPerSlot == 2
\* options.initial_zoom_size and options.max_zooms of the modelled run.
InitialZoomSize == 2
MaxZooms == 2
\* SpecWrite: at most MaxChroms chromosomes of at most MaxChromRecs records
\* each, at positions 0..MaxChromPos.
MaxChroms == 2
MaxChromRecs == 2
MaxChromPos == 2
\* SpecStream: the processor sends at most MaxStreamSections sections.
MaxStreamSections == 3
\* The section channels hold at most ChannelCapacity futures (channel(100)).
ChannelCapacity == 2
\* SpecPipe: at most MaxPipeChroms chromosomes, each sending at most
\* MaxSections sections on a channel.
MaxPipeChroms == 2
MaxSections == 2
\* SpecBuffer: the producer writes at most MaxBytes bytes; the destination
\* holds at most MaxDestBytes bytes before the switch.
MaxBytes == 3
MaxDestBytes == 1
\* SpecRTree: at most MaxLeaves sections on chromosomes 0..MaxTreeChrom at
\* positions 0..MaxTreePos; options.block_size ranges over 2..MaxBlockSize.
MaxLeaves == 5
MaxTreeChrom == 1
MaxTreePos == 3
MaxBlockSize == 3

\* BedParser: records of an input, and groups next_chrom returns in a run
MaxBedRecs == 3
MaxGroups == 3

\* bedgraphparser: records of an input, ChromGroups returned.
MaxGraphRecs == 3
MaxGraphGroups == 3

\* BigWigWrite::write: zoom levels of the options, primary sections of
\* FileSectionSize bytes each
MaxFileZooms == 11
MaxFileSections == 2
FileItemsPerSlot == 2

\* write_chrom_tree: the lengths of chrom_sizes
MaxTreeLength == 2

\* The values of a u16: `item_count as u16`
U16_RANGE == 65536
FileSectionSize == 2

\* f64::MAX, the initial min_val of a chromosome summary (f64::MIN is its
\* negation); any number above every record value behaves the same.
F64_MAX == 1000000
\* BigWigWrite::MAX_ZOOM_LEVELS
MAX_ZOOM_LEVELS == 10

\* The record values the source may yield (integer-valued f32).
RecordValues == {1, 2}

\* chrom_length: one position below MaxPos, so that end > chrom_length occurs.
ChromLength == MaxPos - 1

Min(a, b) == IF a <= b THEN a ELSE b
Max(a, b) == IF a >= b THEN a ELSE b

\* struct Value { start, end, value }
Values == [start : 0..MaxPos, end : 0..MaxPos, value : RecordValues]

VARIABLES
    options,         \* BBIWriteOptions of the run
    consumed,        \* the records chrom_values.next() has returned, in order
    lookahead,       \* what chrom_values.peek() returns: <<>> or <<value>>
    summary,         \* the chromosome's running Summary
    items,           \* state_val.items, the primary batch buffer
    zoom_items,      \* state_val.zoom_items: [size, live_info, records] per level
    ftx,             \* the sections sent on the primary channel, in send order
    zooms_channels,  \* per level, the zoom sections sent on its channel
    result,          \* "running", "Ok" or "InvalidInput"
    chrom_id,        \* the chrom_id process_chrom was given
    \* write_vals
    chroms_started,  \* how many chromosomes vals_iter has returned
    total,           \* `summary` of write_vals: <<>> or <<Summary>>
    raw,             \* history: statistics of the records read from the input
    write_state,     \* "idle", "chrom", "next", "Ok" or "Err"
    \* the section pipeline
    n_chroms,        \* chrom_indices: how many chromosomes the input holds
    started,         \* how many of them begin_next has started
    queued_reads,    \* the iterator's queue: chromosome numbers, 0 = Finished
    cur_chrom,       \* the chromosome write_vals is handling (0: none)
    coord_pc,        \* position of write_vals / write
    proc,            \* per chromosome: "idle", "running" or "done"
    n_sent,          \* per chromosome: sections sent on the primary channel
    chan,            \* per chromosome: the futures in the channel, FIFO
    encoded,         \* per chromosome: the encoded sections, in finishing order
    buf,             \* per chromosome: the TempFileBuffer of its section data
    sec_idx,         \* per chromosome: the index entries create_do_write wrote
    file,            \* raw_file after pre_data, as a sequence of blocks
    sections_index,  \* `writer`: the index entries of all chromosomes
    zoom_data,       \* zoom.4: the zoom sections of all chromosomes
    zoom_index,      \* zoom.1: their index entries
    leaves,          \* the leaves handed to the primary get_rtreeindex
    zoom_leaves,     \* the leaves handed to the zoom level's get_rtreeindex
    zoom_entries,    \* the ZoomHeaders write_zooms pushed
    \* one TempFileBuffer
    tfb,             \* the buffer: [phase, temp, locked]
    tfb_dest,        \* the content of the destination file
    tfb_prev,        \* history: the destination's content before the switch
    tfb_out,         \* history: the bytes the producer has written, in order
    tfb_flushed,     \* history: how many bytes the switch copied
    tfb_closed,      \* the producer dropped its writer
    tfb_pc,          \* position of the coordinator: switch, await_file
    \* get_rtreeindex
    tree_sections,   \* sections_stream
    block_size,      \* options.block_size
    tree_out,        \* <<>> or <<[nodes, levels, total_sections]>>
    tree_written,    \* <<>> or <<[preamble, blocks]>>: what write_rtreeindex wrote
    \* BedParser and BedParserStreamingIterator
    bed_stream,      \* the records of the StreamingBedValues: [chrom, v]
    bp_state,        \* BedParser.state, the shared cell: <<>> or <<state>>
    bp_groups,       \* the BedChromData returned so far, in order
    bp_panicked,     \* a call panicked
    bp_last,         \* history: the last call: [op, g, ret, panic]
    bp_in_order,     \* history: each next_chrom found the groups drained
                     \* and dropped
    allow_out_of_order_chroms,
    chrom_map,       \* the names chrom_sizes has a length for
    last_chrom,      \* <<>> or <<name>>
    chrom_ids,       \* IdMap: the names with an id, the id is the index - 1
    spawned,         \* the chromosomes do_read spawned a processor for
    adv_result,      \* what the last advance returned
    real_ids,        \* write_vals' own IdMap
    \* BigWigWrite::write
    fw_pc,           \* position of write
    fw_options,      \* self.options: max_zooms, compress, items_per_slot
    fw_vals,         \* <<>> or <<what write_vals returned>>
    fw_file,         \* the file, as a sequence of blocks
    fw_zoom_entries, \* zoom_entries
    fw_header,       \* the offsets write keeps and the fields it writes
    \* write_chrom_tree
    ct_sizes,        \* chrom_sizes: name -> length
    ct_ids,          \* chrom_ids.get_map(): name -> id
    ct_keys,         \* chrom_ids.keys(), in the order the map yields them
    ct_tree,         \* <<>>, or <<the tree written>>, or <<[panic |-> ..]>>
    \* a record source that may yield errors (BedChromData over a stream)
    src_stream,      \* what the stream yields: records and error elements
    src_pos,         \* how many elements were taken from the stream
    src_done,        \* BedChromData.done
    \* the bounded channel of a run of the pipeline
    capacity,        \* the capacity the section channels were created with
    \* BedParserParallelStreamingIterator
    par_allow,       \* allow_out_of_order_chroms
    par_last_chrom,  \* last_chrom: <<>> or <<name>>
    par_indices,     \* chrom_indices still to be started, next one first
    par_queue,       \* queued_reads
    par_started,     \* the chromosomes do_read was called for, in order
    par_returned,    \* what the calls of advance returned, in order
    \* bedgraphparser: BedGraphParser and its ChromGroups
    bg_stream,       \* the records of the input
    bg_state,        \* the shared cell: <<>> or <<BedGraphParserState>>
    bg_groups,       \* the ChromGroups returned so far
    bg_panicked,     \* a call panicked
    bg_last          \* the last call and what it returned

chrom_vars == <<options, consumed, lookahead, summary, items, zoom_items, ftx,
                zooms_channels, result, chrom_id>>
write_vars == <<chroms_started, total, raw, write_state>>
iter_vars == <<n_chroms, started, queued_reads, cur_chrom, coord_pc>>
stream_vars == <<proc, n_sent, chan, encoded, buf, sec_idx, file>>
index_vars == <<sections_index, zoom_data, zoom_index, leaves, zoom_leaves,
                zoom_entries>>
pipe_vars == <<iter_vars, stream_vars, index_vars>>
tfb_vars == <<tfb, tfb_dest, tfb_prev, tfb_out, tfb_flushed, tfb_closed,
              tfb_pc>>
tree_vars == <<tree_sections, block_size, tree_out, tree_written>>
parser_vars == <<bed_stream, bp_state, bp_groups, bp_panicked, bp_last,
                 bp_in_order>>
advance_vars == <<allow_out_of_order_chroms, chrom_map, last_chrom, chrom_ids,
                  spawned, adv_result, real_ids>>
bed_vars == <<parser_vars, advance_vars>>
write_fields == <<fw_pc, fw_options, fw_vals, fw_file, fw_zoom_entries,
                  fw_header>>
chrom_tree_vars == <<ct_sizes, ct_ids, ct_keys, ct_tree>>
source_vars == <<src_stream, src_pos, src_done>>
sched_vars == <<capacity>>
par_vars == <<par_allow, par_last_chrom, par_indices, par_queue, par_started,
              par_returned>>
graph_vars == <<bg_stream, bg_state, bg_groups, bg_panicked, bg_last>>
late_vars == <<par_vars, graph_vars>>
file_vars == <<write_fields, chrom_tree_vars, source_vars, sched_vars,
               late_vars>>
\* What the later specifications leave alone.
early_vars == <<chrom_vars, write_vars, pipe_vars, tfb_vars, tree_vars,
                bed_vars, write_fields, chrom_tree_vars, source_vars,
                sched_vars>>

vars == <<chrom_vars, write_vars, pipe_vars, tfb_vars, tree_vars, bed_vars,
          file_vars>>

\* ----------------------------------------------------- process_chrom: data

\* The summary process_chrom starts from.
NewSummary ==
    [total_items |-> 0, bases_covered |-> 0, min_val |-> F64_MAX,
     max_val |-> -F64_MAX, sum |-> 0, sum_squares |-> 0]

\* successors(initial_zoom_size, |z| z * 4).take(max_zooms)
RECURSIVE ZoomSize(_, _)
ZoomSize(opts, i) ==
    IF i = 1 THEN opts.initial_zoom_size ELSE 4 * ZoomSize(opts, i - 1)

NewZoomItems(opts) ==
    [i \in 1..opts.max_zooms |->
        [size |-> ZoomSize(opts, i), live_info |-> <<>>, records |-> <<>>]]

\* The three precondition checks on the current value; nxt is peek().
StartAfterEnd(cur) == cur.start > cur.end
EndAfterChrom(cur, chrom_length) == cur.end > chrom_length
\* (mutant: adjacent records are taken for overlapping)
OverlapsOrTouches(cur, nxt) == nxt # <<>> /\ cur.end >= nxt[1].start
Overlaps(cur, nxt) == nxt # <<>> /\ cur.end > nxt[1].start

InvalidValue(cur, nxt, chrom_length) ==
    \/ StartAfterEnd(cur)
    \/ EndAfterChrom(cur, chrom_length)
    \/ Overlaps(cur, nxt)

\* (mutant: a record covers its end position too)
UpdateSummaryInclusive(s, cur) ==
    LET len == cur.end - cur.start + 1
        val == cur.value
    IN [total_items   |-> s.total_items + 1,
        bases_covered |-> s.bases_covered + len,
        min_val       |-> Min(s.min_val, val),
        max_val       |-> Max(s.max_val, val),
        sum           |-> s.sum + len * val,
        sum_squares   |-> s.sum_squares + len * val * val]
\* "First, update the summary."
UpdateSummary(s, cur) ==
    LET len == cur.end - cur.start
        val == cur.value
    IN [total_items   |-> s.total_items + 1,
        bases_covered |-> s.bases_covered + len,
        min_val       |-> Min(s.min_val, val),
        max_val       |-> Max(s.max_val, val),
        sum           |-> s.sum + len * val,
        sum_squares   |-> s.sum_squares + len * val * val]

\* ------------------------------------------------ process_chrom: zoom loop

\* live_info.get_or_insert(ZoomRecord { .. })
NewZoomRecord(id, add_start, val) ==
    [chrom |-> id, start |-> add_start, end |-> add_start,
     summary |-> [total_items |-> 0, bases_covered |-> 0, min_val |-> val,
                  max_val |-> val, sum |-> 0, sum_squares |-> 0]]

\* (mutant: the window end is not taken into account)
AddEndUnclamped(next_end, cur_end) == cur_end
\* "End of bases that we could add"
AddEnd(next_end, cur_end) == Min(next_end, cur_end)

\* The body of `if add_end >= add_start { .. }`.
AddBases(zoom2, add_start, add_end, val) ==
    LET added_bases == add_end - add_start
        s == zoom2.summary
    IN [zoom2 EXCEPT
          !.end = add_end,
          !.summary = [total_items   |-> s.total_items + 1,
                       bases_covered |-> s.bases_covered + added_bases,
                       min_val       |-> Min(s.min_val, val),
                       max_val       |-> Max(s.max_val, val),
                       sum           |-> s.sum + added_bases * val,
                       sum_squares   |-> s.sum_squares + added_bases * val * val]]

\* "Set where we would start for next time"
NextAddStart(add_end, cur) == add_end

\* (mutant: a zoom section is sent only when it is full)
ZoomSectionDueOnlyFull(z, add_start, cur, last, items_per_slot) ==
    Len(z.records) = items_per_slot
\* "Write section if full; or if no next section, some items, and no
\* current zoom record"
ZoomSectionDue(z, add_start, cur, last, items_per_slot) ==
    \/ /\ add_start >= cur.end
       /\ z.live_info = <<>>
       /\ last
       /\ z.records # <<>>
    \/ Len(z.records) = items_per_slot

\* The inner `loop` for one zoom level. z is the level's ZoomItem together
\* with sent, the sections sent on the level's channel; last is
\* chrom_values.peek().is_none().
RECURSIVE ZoomLoop(_, _, _, _, _, _)
ZoomLoop(z, add_start, cur, last, items_per_slot, id) ==
    LET z1 == IF ZoomSectionDue(z, add_start, cur, last, items_per_slot)
              THEN [z EXCEPT !.records = <<>>, !.sent = Append(@, z.records)]
              ELSE z
    IN IF add_start >= cur.end
       THEN IF last /\ z1.live_info # <<>>
            THEN ZoomLoop([z1 EXCEPT !.records = Append(@, z1.live_info[1]),
                                     !.live_info = <<>>],
                          add_start, cur, last, items_per_slot, id)
            ELSE z1
       ELSE LET zoom2 == IF z1.live_info = <<>>
                         THEN NewZoomRecord(id, add_start, cur.value)
                         ELSE z1.live_info[1]
                next_end == zoom2.start + z1.size
                add_end == AddEnd(next_end, cur.end)
                zoom3 == IF add_end >= add_start
                         THEN AddBases(zoom2, add_start, add_end, cur.value)
                         ELSE zoom2
                z2 == IF add_end = next_end
                      THEN [z1 EXCEPT !.records = Append(@, zoom3),
                                      !.live_info = <<>>]
                      ELSE [z1 EXCEPT !.live_info = <<zoom3>>]
            IN ZoomLoop(z2, NextAddStart(add_end, cur), cur, last,
                        items_per_slot, id)

\* One level of the `for (zoom_item, zoom_channel)` loop.
ZoomLevel(item, sent, cur, last, items_per_slot, id) ==
    ZoomLoop([size |-> item.size, live_info |-> item.live_info,
              records |-> item.records, sent |-> sent],
             cur.start, cur, last, items_per_slot, id)

\* (mutant: the batch is let grow one past items_per_slot)
PrimarySectionDueLate(n_items, last, items_per_slot) ==
    last \/ n_items > items_per_slot
\* "encode if full, or last item"
PrimarySectionDue(n_items, last, items_per_slot) ==
    last \/ n_items >= items_per_slot

\* (mutant: the end of the section is the end of its first item)
SectionDataOfFirst(items_in_section) ==
    [start |-> items_in_section[1].start, end |-> items_in_section[1].end]
\* encode_section: the start and the end of the SectionData.
SectionData(items_in_section) ==
    [start |-> items_in_section[1].start,
     end |-> items_in_section[Len(items_in_section)].end]

\* -------------------------------------------------- process_chrom: actions

OptionChoices ==
    [items_per_slot : 1..MaxItemsPerSlot,
     initial_zoom_size : {InitialZoomSize},
     max_zooms : {MaxZooms}]

\* What the source may hold behind the n records it has returned.
Lookaheads(n) ==
    IF n < MaxRecs THEN {<<>>} \cup {<<v>> : v \in Values} ELSE {<<>>}

\* The state process_chrom starts in, for the options opts, the chromosome
\* id and the first record first (or <<>>) of the source.
StartChrom(opts, id, first) ==
    /\ options = opts
    /\ chrom_id = id
    /\ consumed = <<>>
    /\ lookahead = first
    /\ summary = NewSummary
    /\ items = <<>>
    /\ zoom_items = NewZoomItems(options)
    /\ ftx = <<>>
    /\ zooms_channels = [i \in 1..options.max_zooms |-> <<>>]
    /\ result = "running"

\* No processor of the record-level model runs: an empty source.
ChromIdle ==
    StartChrom([items_per_slot |-> 1, initial_zoom_size |-> InitialZoomSize,
                max_zooms |-> MaxZooms], 0, <<>>)

\* One iteration of `while let Some(current_val) = chrom_values.next()`.
\* The source is read as far as the iteration looks: nxt, one of following,
\* is the record (or the end) that peek() finds behind current_val.
\* (mutant: the summary is updated before the record is checked)
RejectCounted(cur) ==
    /\ result' = "InvalidInput"
    /\ summary' = UpdateSummary(summary, cur)
    /\ UNCHANGED <<options, chrom_id, items, zoom_items, ftx, zooms_channels>>
\* `return Err(ProcessChromError::InvalidInput(..))`: the checks come
\* before the value is processed.
Reject(cur) ==
    /\ result' = "InvalidInput"
    /\ UNCHANGED <<options, chrom_id, summary, items, zoom_items, ftx,
                   zooms_channels>>

\* The part of one iteration of process_chrom's loop after its first peek():
\* peeked is what the overlap check's peek() returned (<<>> for None and
\* for Some(Err(_)), which the match skips), nxt the value buffered when
\* the iteration ends, last whether the later peek() calls returned None.
ProcessPeeked(cur, peeked, nxt, last, chrom_length) ==
    /\ lookahead' = nxt
    /\ IF InvalidValue(cur, peeked, chrom_length)
       THEN Reject(cur)
       ELSE LET ips == options.items_per_slot
                zs == [i \in 1..options.max_zooms |->
                         ZoomLevel(zoom_items[i], zooms_channels[i],
                                   cur, last, ips, chrom_id)]
                pushed == Append(items, cur)
            IN /\ summary' = UpdateSummary(summary, cur)
               /\ zoom_items' =
                     [i \in 1..options.max_zooms |->
                         [size |-> zs[i].size,
                          live_info |-> zs[i].live_info,
                          records |-> zs[i].records]]
               /\ zooms_channels' =
                     [i \in 1..options.max_zooms |-> zs[i].sent]
               /\ IF PrimarySectionDue(Len(pushed), last, ips)
                  THEN items' = <<>> /\ ftx' = Append(ftx, pushed)
                  ELSE items' = pushed /\ ftx' = ftx
               /\ result' = "running"
               /\ UNCHANGED <<options, chrom_id>>

\* One iteration of process_chrom's loop for the record cur that next()
\* returned; peeks holds the possible outcomes of the iteration's peek()
\* calls as records [peeked, nxt, last].
ProcessRecord(cur, peeks, chrom_length) ==
    /\ consumed' = Append(consumed, cur)
    /\ IF StartAfterEnd(cur) \/ EndAfterChrom(cur, chrom_length)
       THEN \* rejected before peek() is called
            /\ Reject(cur)
            /\ lookahead' = <<>>
       ELSE \E p \in peeks :
               ProcessPeeked(cur, p.peeked, p.nxt, p.last, chrom_length)

ProcessValueOf(following, chrom_length) ==
    /\ result = "running"
    /\ lookahead # <<>>
    /\ ProcessRecord(lookahead[1],
                     {[peeked |-> nxt, nxt |-> nxt, last |-> (nxt = <<>>)] :
                        nxt \in following},
                     chrom_length)

\* process_chrom for a chromosome of the length ChromLength.
ProcessValueFrom(following) == ProcessValueOf(following, ChromLength)

\* chrom_values.next() returns None: the loop ends and the summary is returned.
ReturnSummary ==
    /\ result' = "Ok"
    /\ summary' = IF summary.total_items = 0
                  THEN [summary EXCEPT !.min_val = 0, !.max_val = 0]
                  ELSE summary
    /\ UNCHANGED <<options, chrom_id, consumed, items, zoom_items, ftx,
                   zooms_channels>>

Finish ==
    /\ result = "running"
    /\ lookahead = <<>>
    /\ ReturnSummary
    /\ UNCHANGED lookahead

\* ------------------------------------------------------------- write_vals

\* (mutant: the summary of the last chromosome replaces the running one)
FoldSummaryKeepLast(tot, chrom_summary) == <<chrom_summary>>
\* `summary` of write_vals after the chromosome summary chrom_summary.
FoldSummary(tot, chrom_summary) ==
    IF tot = <<>>
    THEN <<chrom_summary>>
    ELSE <<[tot[1] EXCEPT
              !.bases_covered = @ + chrom_summary.bases_covered,
              !.min_val = Min(@, chrom_summary.min_val),
              !.max_val = Max(@, chrom_summary.max_val),
              !.sum = @ + chrom_summary.sum,
              !.sum_squares = @ + chrom_summary.sum_squares]>>

\* summary_complete
SummaryComplete(tot) ==
    IF tot = <<>>
    THEN [total_items |-> 0, bases_covered |-> 0, min_val |-> 0, max_val |-> 0,
          sum |-> 0, sum_squares |-> 0]
    ELSE tot[1]

WriteIdle ==
    /\ chroms_started = 0
    /\ total = <<>>
    /\ raw = <<>>
    /\ write_state = "idle"

\* ------------------------------------------------- section pipeline: data

Chroms == 1..MaxPipeChroms

\* section.data.len(): the byte length of an encoded section.
SectionSizes == {1, 2}

\* file.tell() after the blank headers, the total summary and the section
\* count: where the primary data begins.
PreData == 64 + MAX_ZOOM_LEVELS * 24 + 40 + 8

\* A run of bytes of the output file.
Block(kind, chrom, sec, size) ==
    [kind |-> kind, chrom |-> chrom, sec |-> sec, size |-> size]

\* An index entry: what create_do_write writes for a section.
IndexEntry(kind, chrom, sec, offset, size) ==
    [kind |-> kind, chrom |-> chrom, sec |-> sec, offset |-> offset,
     size |-> size]

RECURSIVE Bytes(_)
Bytes(blocks) ==
    IF blocks = <<>> THEN 0 ELSE Head(blocks).size + Bytes(Tail(blocks))

\* TempFileBuffer::new(): the buffer starts on its temporary file.
TfbNew == [phase |-> "temp", temp |-> <<>>, locked |-> FALSE]

\* A write of the producer: to the temporary file before the switch, to the
\* destination after it.
TfbWrite(b, dest, x) ==
    IF b.phase = "temp"
    THEN [buf |-> [b EXCEPT !.temp = Append(@, x)], dest |-> dest]
    ELSE [buf |-> b, dest |-> Append(dest, x)]

\* The producer may write unless a switch is in progress.
TfbWritableAlways(b) == TRUE
TfbWritable(b) == ~b.locked

\* The steps of switch(dest): stop the writes, copy what the temporary file
\* holds to the destination, rebind the writer to the destination.
TfbLock(b) == [b EXCEPT !.locked = TRUE]
TfbCopy(b, dest) == dest \o b.temp
TfbRebind(b) == [b EXCEPT !.phase = "dest", !.temp = <<>>, !.locked = FALSE]

\* switch(dest) as one step.
TfbSwitch(b, dest) ==
    [buf |-> TfbRebind(TfbLock(b)), dest |-> TfbCopy(TfbLock(b), dest)]

PipeIdle ==
    /\ n_chroms = 0
    /\ started = 0
    /\ queued_reads = <<>>
    /\ cur_chrom = 0
    /\ coord_pc = "idle"
    /\ proc = [c \in Chroms |-> "idle"]
    /\ n_sent = [c \in Chroms |-> 0]
    /\ chan = [c \in Chroms |-> <<>>]
    /\ encoded = [c \in Chroms |-> <<>>]
    /\ buf = [c \in Chroms |-> TfbNew]
    /\ sec_idx = [c \in Chroms |-> <<>>]
    /\ file = <<>>
    /\ sections_index = <<>>
    /\ zoom_data = <<>>
    /\ zoom_index = <<>>
    /\ leaves = <<>>
    /\ zoom_leaves = <<>>
    /\ zoom_entries = <<>>

BufferIdle ==
    /\ tfb = TfbNew
    /\ tfb_dest = <<>>
    /\ tfb_prev = <<>>
    /\ tfb_out = <<>>
    /\ tfb_flushed = 0
    /\ tfb_closed = FALSE
    /\ tfb_pc = "idle"

TreeIdle ==
    /\ tree_sections = <<>>
    /\ block_size = 0
    /\ tree_out = <<>>
    /\ tree_written = <<>>

\* No advance has returned yet.
AdvanceNone ==
    [kind |-> "none", chrom |-> <<>>, last |-> <<>>, ids |-> <<>>,
     spawned |-> <<>>]

BedIdle ==
    /\ bed_stream = <<>>
    /\ bp_state = <<>>
    /\ bp_groups = <<>>
    /\ bp_panicked = FALSE
    /\ bp_last = <<>>
    /\ bp_in_order = TRUE
    /\ allow_out_of_order_chroms = TRUE
    /\ chrom_map = {}
    /\ last_chrom = <<>>
    /\ chrom_ids = <<>>
    /\ spawned = <<>>
    /\ adv_result = AdvanceNone
    /\ real_ids = <<>>

ChromTreeIdle ==
    /\ ct_sizes = <<>>
    /\ ct_ids = <<>>
    /\ ct_keys = <<>>
    /\ ct_tree = <<>>

WriteFieldsIdle ==
    /\ fw_pc = "idle"
    /\ fw_options = <<>>
    /\ fw_vals = <<>>
    /\ fw_file = <<>>
    /\ fw_zoom_entries = <<>>
    /\ fw_header = <<>>

SourceIdle ==
    /\ src_stream = <<>>
    /\ src_pos = 0
    /\ src_done = FALSE

SchedIdle == capacity = 0

ParIdle ==
    /\ par_allow = FALSE
    /\ par_last_chrom = <<>>
    /\ par_indices = <<>>
    /\ par_queue = <<>>
    /\ par_started = <<>>
    /\ par_returned = <<>>

GraphIdle ==
    /\ bg_stream = <<>>
    /\ bg_state = <<>>
    /\ bg_groups = <<>>
    /\ bg_panicked = FALSE
    /\ bg_last = <<>>

LateIdle == ParIdle /\ GraphIdle

FileIdle ==
    /\ WriteFieldsIdle
    /\ ChromTreeIdle
    /\ SourceIdle
    /\ SchedIdle
    /\ LateIdle

\* --------------------------------------------------------------- SpecChrom

InitChrom ==
    /\ \E opts \in OptionChoices, first \in Lookaheads(0) :
          StartChrom(opts, 0, first)
    /\ WriteIdle
    /\ PipeIdle
    /\ BufferIdle
    /\ TreeIdle
    /\ BedIdle
    /\ FileIdle

ProcessValue ==
    /\ ProcessValueFrom(Lookaheads(Len(consumed) + 1))
    /\ UNCHANGED <<write_vars, pipe_vars, tfb_vars, tree_vars, bed_vars,
                   file_vars>>

FinishChrom ==
    /\ Finish
    /\ UNCHANGED <<write_vars, pipe_vars, tfb_vars, tree_vars, bed_vars,
                   file_vars>>

NextChrom == ProcessValue \/ FinishChrom

SpecChrom == InitChrom /\ [][NextChrom]_vars

\* --------------------------------------------------------------- SpecWrite

WriteValues ==
    [start : 0..MaxChromPos, end : 0..MaxChromPos, value : RecordValues]

\* A chromosome group holds at least one record.
FirstOfChrom == {<<v>> : v \in WriteValues}

WriteLookaheads(n) ==
    IF n < MaxChromRecs THEN {<<>>} \cup FirstOfChrom ELSE {<<>>}

WriteOptionChoices ==
    {[items_per_slot |-> k, initial_zoom_size |-> z[1], max_zooms |-> z[2]] :
        k \in {1, MaxItemsPerSlot},
        z \in {<<1, 1>>, <<InitialZoomSize, MaxZooms>>}}

\* The statistics of the records read so far, extended by the record v.
RawAdd(r, v) ==
    IF r = <<>>
    THEN <<[bases_covered |-> v.end - v.start, min_val |-> v.value,
            max_val |-> v.value, sum |-> (v.end - v.start) * v.value]>>
    ELSE <<[bases_covered |-> r[1].bases_covered + (v.end - v.start),
            min_val |-> IF v.value < r[1].min_val THEN v.value ELSE r[1].min_val,
            max_val |-> IF v.value > r[1].max_val THEN v.value ELSE r[1].max_val,
            sum |-> r[1].sum + (v.end - v.start) * v.value]>>

\* vals_iter.next() returns the first chromosome; its processor starts.
InitWrite ==
    /\ \E opts \in WriteOptionChoices, first \in FirstOfChrom :
          StartChrom(opts, 0, first)
    /\ chroms_started = 1
    /\ total = <<>>
    /\ raw = <<>>
    /\ write_state = "chrom"
    /\ PipeIdle
    /\ BufferIdle
    /\ TreeIdle
    /\ BedIdle
    /\ FileIdle

\* The processor of the current chromosome takes a record. SpecWrite follows
\* the writes of the inputs process_chrom accepts; what it rejects is the
\* subject of SpecChrom.
WriteProcessValue ==
    /\ write_state = "chrom"
    /\ ProcessValueFrom(WriteLookaheads(Len(consumed) + 1))
    /\ result' = "running"
    /\ raw' = RawAdd(raw, lookahead[1])
    /\ UNCHANGED <<chroms_started, total, write_state>>
    /\ UNCHANGED <<pipe_vars, tfb_vars, tree_vars, bed_vars,
                   file_vars>>

\* The processor of the current chromosome returns Ok(summary).
WriteFinishChrom ==
    /\ write_state = "chrom"
    /\ Finish
    /\ UNCHANGED write_vars
    /\ UNCHANGED <<pipe_vars, tfb_vars, tree_vars, bed_vars,
                   file_vars>>

\* `let chrom_summary = summary_future.await?;` and the fold that follows.
AwaitChromSummary ==
    /\ write_state = "chrom"
    /\ result # "running"
    /\ IF result = "Ok"
       THEN /\ total' = FoldSummary(total, summary)
            /\ write_state' = "next"
       ELSE /\ total' = total
            /\ write_state' = "Err"
    /\ UNCHANGED <<chrom_vars, chroms_started, raw>>
    /\ UNCHANGED <<pipe_vars, tfb_vars, tree_vars, bed_vars,
                   file_vars>>

\* vals_iter.next() returns another chromosome; its processor starts.
NextChromosomeFrom(firsts) ==
    /\ write_state = "next"
    /\ \E first \in firsts :
        /\ options' = options
        /\ chrom_id' = chroms_started
        /\ consumed' = <<>>
        /\ lookahead' = first
        /\ summary' = NewSummary
        /\ items' = <<>>
        /\ zoom_items' = NewZoomItems(options)
        /\ ftx' = <<>>
        /\ zooms_channels' = [i \in 1..options.max_zooms |-> <<>>]
        /\ result' = "running"
    /\ chroms_started' = chroms_started + 1
    /\ write_state' = "chrom"
    /\ UNCHANGED <<total, raw>>
    /\ UNCHANGED <<pipe_vars, tfb_vars, tree_vars, bed_vars,
                   file_vars>>

NextChromosome ==
    /\ chroms_started < MaxChroms
    /\ NextChromosomeFrom(FirstOfChrom)

\* vals_iter.next() returns None: summary_complete is returned.
FinishWrite ==
    /\ write_state = "next"
    /\ total' = <<SummaryComplete(total)>>
    /\ write_state' = "Ok"
    /\ UNCHANGED <<chrom_vars, chroms_started, raw>>
    /\ UNCHANGED <<pipe_vars, tfb_vars, tree_vars, bed_vars,
                   file_vars>>

NextWrite ==
    \/ WriteProcessValue
    \/ WriteFinishChrom
    \/ AwaitChromSummary
    \/ NextChromosome
    \/ FinishWrite

SpecWrite == InitWrite /\ [][NextWrite]_vars

\* ------------------------------------------------------------ SpecBedGraph

\* resources/test/small.bedGraph as test_bedgraph_works reads it: the
\* records of chr17, chr18 and chr19. The values are counted in halves:
\* value 1 is 0.5, a sum s is s / 2 and a sum of squares q is q / 4.
SmallBedGraph ==
    <<<<[start |-> 1, end |-> 100, value |-> 1],
        [start |-> 101, end |-> 200, value |-> 1],
        [start |-> 201, end |-> 300, value |-> 1]>>,
      <<[start |-> 1, end |-> 100, value |-> 1],
        [start |-> 101, end |-> 200, value |-> 1]>>,
      <<[start |-> 1, end |-> 100, value |-> 1]>>>>

\* What peek() finds behind the n-th record of chromosome c.
BedGraphLookahead(c, n) ==
    IF n < Len(SmallBedGraph[c]) THEN <<SmallBedGraph[c][n + 1]>> ELSE <<>>

BedGraphOptionChoices ==
    [items_per_slot : 1..MaxItemsPerSlot,
     initial_zoom_size : {InitialZoomSize, 10},
     max_zooms : 0..MaxZooms]

\* vals_iter.next() returns chr17; its processor starts.
InitBedGraph ==
    /\ \E opts \in BedGraphOptionChoices :
          StartChrom(opts, 0, BedGraphLookahead(1, 0))
    /\ chroms_started = 1
    /\ total = <<>>
    /\ raw = <<>>
    /\ write_state = "chrom"
    /\ PipeIdle
    /\ BufferIdle
    /\ TreeIdle
    /\ BedIdle
    /\ FileIdle

\* The processor of the current chromosome, of length 1000, takes a record.
BedGraphProcessValue ==
    /\ write_state = "chrom"
    /\ ProcessValueOf({BedGraphLookahead(chroms_started, Len(consumed) + 1)},
                      1000)
    /\ raw' = RawAdd(raw, lookahead[1])
    /\ UNCHANGED <<chroms_started, total, write_state>>
    /\ UNCHANGED <<pipe_vars, tfb_vars, tree_vars, bed_vars,
                   file_vars>>

\* vals_iter.next() returns chr18 or chr19; its processor starts.
BedGraphNextChromosome ==
    /\ chroms_started < Len(SmallBedGraph)
    /\ NextChromosomeFrom({BedGraphLookahead(chroms_started + 1, 0)})

\* vals_iter.next() returns None behind chr19.
BedGraphFinishWrite ==
    /\ chroms_started = Len(SmallBedGraph)
    /\ FinishWrite

NextBedGraph ==
    \/ BedGraphProcessValue
    \/ WriteFinishChrom
    \/ AwaitChromSummary
    \/ BedGraphNextChromosome
    \/ BedGraphFinishWrite

SpecBedGraph == InitBedGraph /\ [][NextBedGraph]_vars

\* ---------------------------------------------- section pipeline: tasks

\* create_do_write's current_offset after the entries it has written.
CurrentOffset(idx) ==
    IF idx = <<>> THEN 0 ELSE idx[Len(idx)].offset + idx[Len(idx)].size

EncodedSecs(c) == {encoded[c][i].sec : i \in DOMAIN encoded[c]}

\* process_chrom sends the future of its next section on the channel; the
\* send waits while the channel is full.
\* (mutant: the send waits for two free places)
HasRoomForTwo(ch, cap) == Len(ch) + 1 < cap
\* `ftx.send(handle.boxed()).await` completes when the channel of capacity
\* cap has a free place.
HasRoom(ch, cap) == Len(ch) < cap

DispatchWithin(c, max_sections, cap) ==
    /\ proc[c] = "running"
    /\ n_sent[c] < max_sections
    /\ HasRoom(chan[c], cap)
    /\ n_sent' = [n_sent EXCEPT ![c] = @ + 1]
    /\ chan' = [chan EXCEPT ![c] = Append(@, n_sent[c] + 1)]
    /\ UNCHANGED <<proc, encoded, buf, sec_idx, file>>

Dispatch(c, max_sections) == DispatchWithin(c, max_sections, ChannelCapacity)

\* process_chrom returns: the sender is dropped and the channel closes. A
\* chromosome has at least one record, hence at least one section.
ProcReturn(c) ==
    /\ proc[c] = "running"
    /\ n_sent[c] >= 1
    /\ proc' = [proc EXCEPT ![c] = "done"]
    /\ UNCHANGED <<n_sent, chan, encoded, buf, sec_idx, file>>

\* An encoder task spawned on the pool finishes: any of the sections sent
\* and not yet encoded, whatever the order they were sent in.
EncodeOf(c, sizes) ==
    /\ \E k \in 1..n_sent[c], b \in sizes :
        /\ k \notin EncodedSecs(c)
        /\ encoded' = [encoded EXCEPT ![c] = Append(@, [sec |-> k, size |-> b])]
    /\ UNCHANGED <<proc, n_sent, chan, buf, sec_idx, file>>

Encode(c) == EncodeOf(c, SectionSizes)

\* The futures create_do_write may receive next: frx.next() yields the
\* oldest one in the channel.
ReceivableAny(ch) == {ch[i] : i \in DOMAIN ch}
Receivable(ch) == IF ch = <<>> THEN {} ELSE {Head(ch)}

\* The body of create_do_write's loop for section k of chromosome c, once
\* its future has resolved to `size` bytes.
WriteSection(c, k, size) ==
    LET w == TfbWrite(buf[c], file, Block("section", c, k, size)) IN
    /\ TfbWritable(buf[c])
    /\ chan' = [chan EXCEPT ![c] = SelectSeq(@, LAMBDA x : x # k)]
    /\ buf' = [buf EXCEPT ![c] = w.buf]
    /\ file' = w.dest
    /\ sec_idx' = [sec_idx EXCEPT ![c] =
            Append(@, IndexEntry("section", c, k, CurrentOffset(@), size))]

\* create_do_write: the received future has resolved and is written.
ConsumerWrite(c) ==
    /\ \E k \in Receivable(chan[c]) : \E i \in DOMAIN encoded[c] :
        /\ encoded[c][i].sec = k
        /\ WriteSection(c, k, encoded[c][i].size)
    /\ UNCHANGED <<proc, n_sent, encoded>>

\* create_do_write with the encoder task of the future it awaits: the task
\* finishes and the section is written.
EncodeAndWrite(c) ==
    /\ \E k \in Receivable(chan[c]), b \in SectionSizes :
        /\ k \notin EncodedSecs(c)
        /\ encoded' = [encoded EXCEPT ![c] = Append(@, [sec |-> k, size |-> b])]
        /\ WriteSection(c, k, b)
    /\ UNCHANGED <<proc, n_sent>>

\* -------------------------------------------------------------- SpecStream

InitStream ==
    /\ ChromIdle
    /\ WriteIdle
    /\ BufferIdle
    /\ TreeIdle
    /\ BedIdle
    /\ FileIdle
    /\ n_chroms = 1
    /\ started = 1
    /\ queued_reads = <<>>
    /\ cur_chrom = 1
    /\ coord_pc = "idle"
    /\ proc = [c \in Chroms |-> IF c = 1 THEN "running" ELSE "idle"]
    /\ n_sent = [c \in Chroms |-> 0]
    /\ chan = [c \in Chroms |-> <<>>]
    /\ encoded = [c \in Chroms |-> <<>>]
    /\ buf = [c \in Chroms |-> TfbNew]
    /\ sec_idx = [c \in Chroms |-> <<>>]
    /\ file = <<>>
    /\ sections_index = <<>>
    /\ zoom_data = <<>>
    /\ zoom_index = <<>>
    /\ leaves = <<>>
    /\ zoom_leaves = <<>>
    /\ zoom_entries = <<>>

\* What the section pipeline leaves alone.
pipe_others == <<chrom_vars, write_vars, tfb_vars, tree_vars, bed_vars,
                file_vars>>

StreamDispatch ==
    /\ Dispatch(1, MaxStreamSections)
    /\ UNCHANGED <<iter_vars, index_vars, pipe_others>>

StreamReturn ==
    /\ ProcReturn(1)
    /\ UNCHANGED <<iter_vars, index_vars, pipe_others>>

StreamEncode ==
    /\ Encode(1)
    /\ UNCHANGED <<iter_vars, index_vars, pipe_others>>

StreamWrite ==
    /\ ConsumerWrite(1)
    /\ UNCHANGED <<iter_vars, index_vars, pipe_others>>

NextStream ==
    \/ StreamDispatch
    \/ StreamReturn
    \/ StreamEncode
    \/ StreamWrite

SpecStream == InitStream /\ [][NextStream]_vars

\* ---------------------------------- section pipeline: iterator, coordinator

\* `self.queued_reads.len() < (4 + 1)`
MaxQueuedReads == 4 + 1

\* The loop of BedParserParallelStreamingIterator::advance: begin_next is
\* called while the queue is short and does not end in Finished (0).
RECURSIVE FillQueue(_, _, _)
FillQueue(q, st, n) ==
    IF Len(q) < MaxQueuedReads /\ (q = <<>> \/ q[Len(q)] # 0)
    THEN IF st < n
         THEN FillQueue(Append(q, st + 1), st + 1, n)
         ELSE FillQueue(Append(q, 0), st, n)
    ELSE [queued_reads |-> q, started |-> st]

\* vals_iter.advance(): the queue is topped up, which starts the processors
\* of the chromosomes begun, and its front is returned.
Advance ==
    /\ coord_pc = "advance"
    /\ LET f == FillQueue(queued_reads, started, n_chroms)
           front == Head(f.queued_reads)
       IN  /\ queued_reads' = Tail(f.queued_reads)
           /\ started' = f.started
           /\ proc' = [c \in Chroms |->
                         IF c > started /\ c <= f.started THEN "running"
                         ELSE proc[c]]
           /\ cur_chrom' = front
           /\ coord_pc' = IF front = 0 THEN "assemble" ELSE "switch"
    /\ UNCHANGED <<n_chroms, n_sent, chan, encoded, buf, sec_idx, file,
                   index_vars>>
    /\ UNCHANGED pipe_others

\* `sections_buf.switch(raw_file)`
SwitchSections ==
    /\ coord_pc = "switch"
    /\ LET w == TfbSwitch(buf[cur_chrom], file)
       IN  /\ buf' = [buf EXCEPT ![cur_chrom] = w.buf]
           /\ file' = w.dest
    /\ coord_pc' = "await"
    /\ UNCHANGED <<n_chroms, started, queued_reads, cur_chrom, proc, n_sent,
                   chan, encoded, sec_idx, index_vars>>
    /\ UNCHANGED pipe_others

\* summary_future and sections_future of chromosome c have resolved: its
\* processor returned and create_do_write drained the closed channel.
SectionsFinishedEarly(c) == TRUE
SectionsFinished(c) == proc[c] = "done" /\ chan[c] = <<>>

\* `summary_future.await?; sections_future.await?;` then the index entries
\* of the chromosome are appended to `writer` and the file is taken back.
AwaitSections ==
    /\ coord_pc = "await"
    /\ SectionsFinished(cur_chrom)
    /\ sections_index' = sections_index \o sec_idx[cur_chrom]
    /\ coord_pc' = "zooms"
    /\ UNCHANGED <<n_chroms, started, queued_reads, cur_chrom, stream_vars,
                   zoom_data, zoom_index, leaves, zoom_leaves, zoom_entries>>
    /\ UNCHANGED pipe_others

\* What create_do_write may have written for the zoom level of a chromosome:
\* the sizes of its sections, in order. The zoom sections of the model are
\* all of the smallest size.
SmallestSize == CHOOSE x \in SectionSizes : \A y \in SectionSizes : x <= y

ZoomSectionRuns == {[i \in 1..n |-> SmallestSize] : n \in 0..MaxSections}

ZoomBlocks(c, run) == [i \in DOMAIN run |-> Block("zoom", c, i, run[i])]

\* The entries create_do_write wrote for them: current_offset starts at 0.
ZoomIndexEntries(c, run) ==
    [i \in DOMAIN run |->
        IndexEntry("zoom", c, i, Bytes(SubSeq(ZoomBlocks(c, run), 1, i - 1)),
                   run[i])]

\* `buf.expect_closed_write(&mut zoom.4)`: the zoom data of the chromosome
\* are copied behind what the level's file holds.
ExpectClosedWriteAtStart(zoom_4, blocks) == blocks \o zoom_4
ExpectClosedWrite(zoom_4, blocks) == zoom_4 \o blocks

\* The loop over zoom_infos: the zoom task of the chromosome has finished;
\* its index entries go to zoom.1, its data to zoom.4.
CollectZoomsFrom(runs) ==
    /\ coord_pc = "zooms"
    /\ \E run \in runs :
        /\ zoom_index' = zoom_index \o ZoomIndexEntries(cur_chrom, run)
        /\ zoom_data' = ExpectClosedWrite(zoom_data, ZoomBlocks(cur_chrom, run))
    /\ coord_pc' = "advance"
    /\ UNCHANGED <<n_chroms, started, queued_reads, cur_chrom, stream_vars,
                   sections_index, leaves, zoom_leaves, zoom_entries>>
    /\ UNCHANGED pipe_others

CollectZooms == CollectZoomsFrom(ZoomSectionRuns)

\* ---------------------------------------- section pipeline: write, write_zooms

\* write: the offset of each primary section is recomputed, counting the
\* sizes up from pre_data.
SectionsIter(idx, pre_data) ==
    [i \in DOMAIN idx |->
        [idx[i] EXCEPT !.offset = pre_data + Bytes(SubSeq(idx, 1, i - 1))]]

\* write_zooms: `section.offset += zoom_data_offset`
ZoomSectionsIter(idx, zoom_data_offset) ==
    [i \in DOMAIN idx |-> [idx[i] EXCEPT !.offset = @ + zoom_data_offset]]

\* The bytes write_chrom_tree writes for n chromosomes with 4-byte names:
\* the header, the node header and one item (key, id, length) each.
ChromTreeBytes(n) == (4 + 4 + 4 + 4 + 8 + 8) + (1 + 1 + 2) + n * (4 + 4 + 4)

\* The bytes write_rtreeindex writes for n leaves in one node: the header,
\* the node header and one leaf item each.
RTreeBytes(n) ==
    (4 + 4 + 8 + 4 + 4 + 4 + 4 + 8 + 4 + 4) + (1 + 1 + 2)
      + n * (4 + 4 + 4 + 4 + 8 + 8)

\* write_zooms keeps a level unless its data exceed half the primary data.
ZoomKept(zoom_size, data_size) == ~(zoom_size > data_size \div 2)

\* write, once write_vals has returned: the chromosome tree, the primary
\* index, then write_zooms for the zoom level.
Assemble ==
    /\ coord_pc = "assemble"
    /\ LET data_size == Bytes(file)
           chrom_tree == Block("chrom_tree", 0, 0, ChromTreeBytes(n_chroms))
           index == Block("rtree", 0, 0, RTreeBytes(Len(sections_index)))
           zoom_rtree == Block("rtree", 0, 0, RTreeBytes(Len(zoom_index)))
           with_index == file \o <<chrom_tree, index>>
           zoom_size == Bytes(zoom_data)
           zoom_data_offset == PreData + Bytes(with_index)
           zoom_index_offset == PreData + Bytes(with_index \o zoom_data)
       IN  /\ leaves' = SectionsIter(sections_index, PreData)
           /\ IF ZoomKept(zoom_size, data_size)
              THEN /\ zoom_leaves' =
                          ZoomSectionsIter(zoom_index, zoom_data_offset)
                   /\ file' = with_index \o zoom_data \o <<zoom_rtree>>
                   /\ zoom_entries' = <<[reduction_level |-> 1,
                                         data_offset |-> zoom_data_offset,
                                         index_offset |-> zoom_index_offset]>>
              ELSE /\ zoom_leaves' = <<>>
                   /\ file' = with_index
                   /\ zoom_entries' = <<>>
    /\ coord_pc' = "done"
    /\ UNCHANGED <<n_chroms, started, queued_reads, cur_chrom, proc, n_sent,
                   chan, encoded, buf, sec_idx, sections_index, zoom_data,
                   zoom_index>>
    /\ UNCHANGED pipe_others

\* ---------------------------------------------------------------- SpecPipe

\* write_vals before its first vals_iter.next(): no chromosome is started.
PipeAtStartOf(max_chroms) ==
    /\ n_chroms \in 1..max_chroms
    /\ started = 0
    /\ queued_reads = <<>>
    /\ cur_chrom = 0
    /\ coord_pc = "advance"
    /\ proc = [c \in Chroms |-> "idle"]
    /\ n_sent = [c \in Chroms |-> 0]
    /\ chan = [c \in Chroms |-> <<>>]
    /\ encoded = [c \in Chroms |-> <<>>]
    /\ buf = [c \in Chroms |-> TfbNew]
    /\ sec_idx = [c \in Chroms |-> <<>>]
    /\ file = <<>>
    /\ sections_index = <<>>
    /\ zoom_data = <<>>
    /\ zoom_index = <<>>
    /\ leaves = <<>>
    /\ zoom_leaves = <<>>
    /\ zoom_entries = <<>>

InitPipe ==
    /\ ChromIdle
    /\ WriteIdle
    /\ BufferIdle
    /\ TreeIdle
    /\ BedIdle
    /\ FileIdle
    /\ PipeAtStartOf(MaxPipeChroms)

PipeDispatch ==
    /\ \E c \in Chroms : Dispatch(c, MaxSections)
    /\ UNCHANGED <<iter_vars, index_vars, pipe_others>>

PipeReturn ==
    /\ \E c \in Chroms : ProcReturn(c)
    /\ UNCHANGED <<iter_vars, index_vars, pipe_others>>

PipeWrite ==
    /\ \E c \in Chroms : EncodeAndWrite(c)
    /\ UNCHANGED <<iter_vars, index_vars, pipe_others>>

NextPipe ==
    \/ Advance
    \/ SwitchSections
    \/ AwaitSections
    \/ CollectZooms
    \/ Assemble
    \/ PipeDispatch
    \/ PipeReturn
    \/ PipeWrite

SpecPipe == InitPipe /\ [][NextPipe]_vars

\* ------------------------------------------------------------ SpecFairPipe
\* The pipeline with its tasks scheduled fairly. The processor of a
\* chromosome, create_do_write and the coordinator run on threads of their
\* own (std::thread::spawn, block_on); the encoders run on the pool, whose
\* workers take the spawned tasks one after the other.

MaxFairChroms == 1
MaxFairSections == 3

InitFairPipe ==
    /\ ChromIdle
    /\ WriteIdle
    /\ BufferIdle
    /\ TreeIdle
    /\ BedIdle
    /\ WriteFieldsIdle
    /\ ChromTreeIdle
    /\ SourceIdle
    /\ LateIdle
    /\ capacity \in 1..ChannelCapacity
    /\ PipeAtStartOf(MaxFairChroms)

FairDispatch ==
    /\ \E c \in Chroms : DispatchWithin(c, MaxFairSections, capacity)
    /\ UNCHANGED <<iter_vars, index_vars, pipe_others>>

\* The sections of the fair pipeline are all of the smallest size.
FairEncode ==
    /\ \E c \in Chroms : EncodeOf(c, {SmallestSize})
    /\ UNCHANGED <<iter_vars, index_vars, pipe_others>>

\* Each chromosome has one zoom section.
FairCollectZooms == CollectZoomsFrom({<<SmallestSize>>})

FairWrite ==
    /\ \E c \in Chroms : ConsumerWrite(c)
    /\ UNCHANGED <<iter_vars, index_vars, pipe_others>>

NextFairPipe ==
    \/ Advance
    \/ SwitchSections
    \/ AwaitSections
    \/ FairCollectZooms
    \/ Assemble
    \/ FairDispatch
    \/ PipeReturn
    \/ FairEncode
    \/ FairWrite

\* Every thread and every pool worker that can take a step is scheduled.
FairScheduling ==
    /\ WF_vars(Advance)
    /\ WF_vars(SwitchSections)
    /\ WF_vars(AwaitSections)
    /\ WF_vars(FairCollectZooms)
    /\ WF_vars(Assemble)
    /\ WF_vars(FairDispatch)
    /\ WF_vars(PipeReturn)
    /\ WF_vars(FairEncode)
    /\ WF_vars(FairWrite)

SpecFairPipe == InitFairPipe /\ [][NextFairPipe]_vars /\ FairScheduling

\* -------------------------------------------------------------- SpecBuffer

\* The bytes a producer may write.
ByteValues == {1, 2}

\* The content of the destination before the switch: header bytes.
DestContents == {[i \in 1..n |-> 0] : n \in 0..MaxDestBytes}

InitBuffer ==
    /\ ChromIdle
    /\ WriteIdle
    /\ PipeIdle
    /\ TreeIdle
    /\ BedIdle
    /\ FileIdle
    /\ tfb = TfbNew
    /\ tfb_prev \in DestContents
    /\ tfb_dest = tfb_prev
    /\ tfb_out = <<>>
    /\ tfb_flushed = 0
    /\ tfb_closed = FALSE
    /\ tfb_pc = "switch"

\* The producer writes a byte through its TempFileBufferWriter.
ProducerWrite ==
    /\ ~tfb_closed
    /\ Len(tfb_out) < MaxBytes
    /\ TfbWritable(tfb)
    /\ \E x \in ByteValues :
        LET w == TfbWrite(tfb, tfb_dest, x)
        IN  /\ tfb' = w.buf
            /\ tfb_dest' = w.dest
            /\ tfb_out' = Append(tfb_out, x)
    /\ UNCHANGED <<tfb_prev, tfb_flushed, tfb_closed, tfb_pc>>
    /\ UNCHANGED <<chrom_vars, write_vars, pipe_vars, tree_vars, bed_vars,
                   file_vars>>

\* The producer finishes and drops its writer.
ProducerClose ==
    /\ ~tfb_closed
    /\ tfb_closed' = TRUE
    /\ UNCHANGED <<tfb, tfb_dest, tfb_prev, tfb_out, tfb_flushed, tfb_pc>>
    /\ UNCHANGED <<chrom_vars, write_vars, pipe_vars, tree_vars, bed_vars,
                   file_vars>>

\* switch(dest), step 1: the buffer stops accepting writes.
SwitchLock ==
    /\ tfb_pc = "switch"
    /\ tfb' = TfbLock(tfb)
    /\ tfb_pc' = "copy"
    /\ UNCHANGED <<tfb_dest, tfb_prev, tfb_out, tfb_flushed, tfb_closed>>
    /\ UNCHANGED <<chrom_vars, write_vars, pipe_vars, tree_vars, bed_vars,
                   file_vars>>

\* switch(dest), step 2: the bytes of the temporary file go to the destination.
SwitchCopy ==
    /\ tfb_pc = "copy"
    /\ tfb_dest' = TfbCopy(tfb, tfb_dest)
    /\ tfb_flushed' = Len(tfb.temp)
    /\ tfb_pc' = "rebind"
    /\ UNCHANGED <<tfb, tfb_prev, tfb_out, tfb_closed>>
    /\ UNCHANGED <<chrom_vars, write_vars, pipe_vars, tree_vars, bed_vars,
                   file_vars>>

\* switch(dest), step 3: the writer is rebound to the destination.
SwitchRebind ==
    /\ tfb_pc = "rebind"
    /\ tfb' = TfbRebind(tfb)
    /\ tfb_pc' = "await_file"
    /\ UNCHANGED <<tfb_dest, tfb_prev, tfb_out, tfb_flushed, tfb_closed>>
    /\ UNCHANGED <<chrom_vars, write_vars, pipe_vars, tree_vars, bed_vars,
                   file_vars>>

\* await_file(): once the producer has finished the destination is returned.
AwaitFile ==
    /\ tfb_pc = "await_file"
    /\ tfb_closed
    /\ tfb_pc' = "returned"
    /\ UNCHANGED <<tfb, tfb_dest, tfb_prev, tfb_out, tfb_flushed, tfb_closed>>
    /\ UNCHANGED <<chrom_vars, write_vars, pipe_vars, tree_vars, bed_vars,
                   file_vars>>

NextBuffer ==
    \/ ProducerWrite
    \/ ProducerClose
    \/ SwitchLock
    \/ SwitchCopy
    \/ SwitchRebind
    \/ AwaitFile

SpecBuffer == InitBuffer /\ [][NextBuffer]_vars

\* ---------------------------------------------------------- get_rtreeindex

\* struct Section { chrom, start, end, offset, size }
Section(chrom, start, end, offset, size) ==
    [chrom |-> chrom, start |-> start, end |-> end, offset |-> offset,
     size |-> size]

\* The leaf node get_rtreeindex makes of a section.
LeafNode(s) ==
    [start_chrom_idx |-> s.chrom, start_base |-> s.start,
     end_chrom_idx |-> s.chrom, end_base |-> s.end,
     kind |-> "Leaf", offset |-> s.offset, size |-> s.size, children |-> <<>>]

\* The non-leaf node over the group `children` with the aggregate of st.
NonLeafNode(st, children) ==
    [start_chrom_idx |-> st.start_chrom_idx, start_base |-> st.start_base,
     end_chrom_idx |-> st.end_chrom_idx, end_base |-> st.end_base,
     kind |-> "NonLeaf", offset |-> 0, size |-> 0, children |-> children]

\* The locals of one pass of the outer loop.
NewPass(levels, total_sections) ==
    [start_chrom_idx |-> 0, start_base |-> 0, end_chrom_idx |-> 0,
     end_base |-> 0, next_nodes |-> <<>>, current_group |-> <<>>,
     levelup |-> FALSE, levels |-> levels, total_sections |-> total_sections]

\* `if levels == 0 { total_sections += 1; }`
CountSection(st) ==
    IF st.levels = 0 THEN st.total_sections + 1 ELSE st.total_sections

\* end_base of a group that gains `node`: the larger one on the same
\* end chromosome, the node's on another.
EndBaseKeptAcrossChroms(st, node) ==
    IF st.end_chrom_idx = node.end_chrom_idx
    THEN Max(st.end_base, node.end_base)
    ELSE st.end_base
EndBase(st, node) ==
    IF st.end_chrom_idx = node.end_chrom_idx
    THEN Max(st.end_base, node.end_base)
    ELSE node.end_base

\* The inner loop's `Some(node)` arm.
PassNode(st, node, bs) ==
    LET first == st.current_group = <<>>
        agg == [st EXCEPT
                  !.total_sections = CountSection(st),
                  !.start_chrom_idx = IF first THEN node.start_chrom_idx ELSE @,
                  !.start_base = IF first THEN node.start_base ELSE @,
                  !.end_base = IF first THEN node.end_base
                               ELSE EndBase(st, node),
                  !.end_chrom_idx = IF first THEN node.end_chrom_idx
                                    ELSE Max(st.end_chrom_idx, node.end_chrom_idx)]
        group == Append(st.current_group, node)
    IN  IF Len(group) >= bs
        THEN [agg EXCEPT
                !.levels = IF st.levelup THEN @ ELSE @ + 1,
                !.levelup = TRUE,
                !.next_nodes = Append(@, NonLeafNode(agg, group)),
                !.current_group = <<>>]
        ELSE [agg EXCEPT !.current_group = group]

\* The inner loop's `None` arm.
PassEndBare(st) ==
    IF st.current_group = <<>> THEN st
    ELSE [st EXCEPT !.next_nodes = @ \o st.current_group]
PassEnd(st) ==
    IF st.current_group = <<>> THEN st
    ELSE IF st.next_nodes = <<>>
         THEN [st EXCEPT !.next_nodes = st.current_group]
         ELSE [st EXCEPT !.next_nodes =
                            Append(@, NonLeafNode(st, st.current_group))]

\* The inner loop over current_nodes.
RECURSIVE Pass(_, _, _)
Pass(nodes, st, bs) ==
    IF nodes = <<>> THEN PassEnd(st)
    ELSE Pass(Tail(nodes), PassNode(st, Head(nodes), bs), bs)

\* `if next_nodes.len() < options.block_size`: the nodes of a pass are few
\* enough to be the root list.
RootFitsWithOneMore(next_nodes, bs) == Len(next_nodes) <= bs + 1
RootFits(next_nodes, bs) == Len(next_nodes) < bs

\* The outer loop: passes until one yields fewer than block_size nodes.
RECURSIVE RTreeLoop(_, _, _, _)
RTreeLoop(current_nodes, levels, total_sections, bs) ==
    LET st == Pass(current_nodes, NewPass(levels, total_sections), bs)
    IN  IF RootFits(st.next_nodes, bs)
        THEN [nodes |-> st.next_nodes, levels |-> st.levels,
              total_sections |-> st.total_sections]
        ELSE RTreeLoop(st.next_nodes, st.levels, st.total_sections, bs)

GetRTreeIndex(sections_stream, bs) ==
    RTreeLoop([i \in DOMAIN sections_stream |-> LeafNode(sections_stream[i])],
              0, 0, bs)

\* -------------------------------------------------------- write_rtreeindex

\* NODEHEADER_SIZE, NON_LEAFNODE_SIZE and LEAFNODE_SIZE
NodeHeaderSize == 1 + 1 + 2
NonLeafNodeSize == 4 + 4 + 4 + 4 + 8
LeafNodeSize == 4 + 4 + 4 + 4 + 8 + 8

\* NON_LEAFNODE_FULL_BLOCK_SIZE and LEAFNODE_FULL_BLOCK_SIZE
NonLeafNodeFullBlockSize(bs) == NodeHeaderSize + NonLeafNodeSize * bs
LeafNodeFullBlockSize(bs) == NodeHeaderSize + LeafNodeSize * bs

\* The bytes of the cir-tree preamble.
PreambleSize == 4 + 4 + 8 + 4 + 4 + 4 + 4 + 8 + 4 + 4

AddAt(offs, i, v) == [offs EXCEPT ![i] = @ + v]

\* calculate_offsets: index_offsets[level - 1] gains the header of the node
\* list and one non-leaf entry per node, then the children are visited in
\* turn. (Sequences are 1-based: index_offsets[level - 1] is offs[level].)
RECURSIVE CalculateOffsets(_, _, _)
RECURSIVE CalculateChildOffsets(_, _, _)
CalculateOffsets(offs, trees, level) ==
    IF level = 0 THEN offs
    ELSE CalculateChildOffsets(AddAt(offs, level, NodeHeaderSize), trees, level)

CalculateChildOffsets(offs, trees, level) ==
    IF trees = <<>> THEN offs
    ELSE CalculateChildOffsets(
             CalculateOffsets(AddAt(offs, level, NonLeafNodeSize),
                              Head(trees).children, level - 1),
             Tail(trees), level)

\* calculate_offsets reaches `panic!("Only calculating offsets/sizes for
\* indices (level > 0)")`: a leaf in a node list visited at a level > 0.
RECURSIVE CalculateOffsetsPanics(_, _)
CalculateOffsetsPanics(trees, level) ==
    /\ level # 0
    /\ \E i \in DOMAIN trees :
          \/ trees[i].kind = "Leaf"
          \/ CalculateOffsetsPanics(trees[i].children, level - 1)

\* write_tree reaches `panic!("Leaf node found at level {}")`: a leaf in
\* a node list above dest_level.
RECURSIVE WriteTreePanics(_, _, _)
WriteTreePanics(trees, curr_level, dest_level) ==
    /\ curr_level # dest_level
    /\ \E i \in DOMAIN trees :
          \/ trees[i].kind = "Leaf"
          \/ WriteTreePanics(trees[i].children, curr_level - 1, dest_level)

\* write_rtreeindex panics: in calculate_offsets, or in one of the
\* write_tree calls of `for level in (0..=levels).rev()`.
WriteRTreeIndexPanics(nodes, levels) ==
    \/ CalculateOffsetsPanics(nodes, levels)
    \/ \E level \in 0..levels : WriteTreePanics(nodes, levels, level)

\* write_tree at curr_level = dest_level: the entry of the idx-th node
\* (idx from 0) of a node list.
TreeEntry(node, idx, curr_level, childnode_offset, bs) ==
    IF node.kind = "Leaf"
    THEN [node |-> node, child_offset |-> 0, bytes |-> LeafNodeSize]
    ELSE LET full_size == IF curr_level - 1 > 0
                          THEN NonLeafNodeFullBlockSize(bs)
                          ELSE LeafNodeFullBlockSize(bs)
         IN  [node |-> node,
              child_offset |-> childnode_offset + idx * full_size,
              bytes |-> NonLeafNodeSize]

RECURSIVE EntryBytes(_)
EntryBytes(entries) ==
    IF entries = <<>> THEN 0
    ELSE Head(entries).bytes + EntryBytes(Tail(entries))

\* write_tree: the node blocks of dest_level below `trees`, written from
\* file position pos on, and the total_size it returns.
RECURSIVE WriteTree(_, _, _, _, _, _)
RECURSIVE WriteSubtrees(_, _, _, _, _, _, _, _)
WriteTree(trees, curr_level, dest_level, childnode_offset, pos, bs) ==
    IF curr_level # dest_level
    THEN WriteSubtrees(trees, curr_level, dest_level, childnode_offset, pos,
                       bs, 0, <<>>)
    ELSE LET entries == [i \in DOMAIN trees |->
                            TreeEntry(trees[i], i - 1, curr_level,
                                      childnode_offset, bs)]
         IN  [blocks |-> <<[pos |-> pos, level |-> curr_level,
                            entries |-> entries]>>,
              total_size |-> NodeHeaderSize + EntryBytes(entries)]

\* The loop of write_tree over the nodes above dest_level.
WriteSubtrees(trees, curr_level, dest_level, childnode_offset, pos, bs,
              next_offset_offset, blocks) ==
    IF trees = <<>>
    THEN [blocks |-> blocks, total_size |-> next_offset_offset]
    ELSE LET w == WriteTree(Head(trees).children, curr_level - 1, dest_level,
                            childnode_offset + next_offset_offset,
                            pos + next_offset_offset, bs)
         IN  WriteSubtrees(Tail(trees), curr_level, dest_level,
                           childnode_offset, pos, bs,
                           next_offset_offset + w.total_size,
                           blocks \o w.blocks)

\* `for level in (0..=levels).rev()`: next_offset runs over index_offsets,
\* pos is the file position.
RECURSIVE WriteLevels(_, _, _, _, _, _, _, _)
WriteLevels(nodes, levels, level, next_offset, pos, offs, bs, blocks) ==
    LET next == IF level > 0 THEN next_offset + offs[level] ELSE next_offset
        w == WriteTree(nodes, levels, level, next, pos, bs)
    IN  IF level = 0 THEN blocks \o w.blocks
        ELSE WriteLevels(nodes, levels, level - 1, next, pos + w.total_size,
                         offs, bs, blocks \o w.blocks)

\* The cir-tree preamble.
Preamble(nodes, section_count, end_of_data, bs) ==
    [block_size |-> bs,
     section_count |-> section_count,
     start_chrom_idx |-> IF nodes = <<>> THEN 0 ELSE nodes[1].start_chrom_idx,
     start_base |-> IF nodes = <<>> THEN 0 ELSE nodes[1].start_base,
     end_chrom_idx |-> IF nodes = <<>> THEN 0
                       ELSE nodes[Len(nodes)].end_chrom_idx,
     end_base |-> IF nodes = <<>> THEN 0 ELSE nodes[Len(nodes)].end_base,
     end_of_data |-> end_of_data]

\* write_rtreeindex with the file positioned at end_of_data.
WriteRTreeIndex(nodes, levels, section_count, end_of_data, bs) ==
    LET offs == CalculateOffsets([l \in 1..levels |-> 0], nodes, levels)
    IN  [preamble |-> Preamble(nodes, section_count, end_of_data, bs),
         blocks |-> WriteLevels(nodes, levels, levels,
                                end_of_data + PreambleSize,
                                end_of_data + PreambleSize, offs, bs, <<>>)]

\* --------------------------------------------------------------- SpecRTree

\* The sections that may follow those of ss in a section stream, which is
\* ordered by (chrom, start): on the same chromosome with a later start, or
\* on a later chromosome; the payload, one byte per base here, lies behind
\* the last one's.
NextSections(ss) ==
    LET last == IF ss = <<>> THEN Section(0, 0, 0, PreData, 0)
                ELSE ss[Len(ss)]
    IN  {Section(c, a, b, last.offset + last.size, b - a) :
            c \in last.chrom..MaxTreeChrom, a \in 0..MaxTreePos,
            b \in 0..MaxTreePos}

SectionFollows(ss, s) ==
    /\ s.start < s.end
    /\ ss # <<>> /\ ss[Len(ss)].chrom = s.chrom => ss[Len(ss)].start < s.start

InitRTree ==
    /\ ChromIdle
    /\ WriteIdle
    /\ PipeIdle
    /\ BufferIdle
    /\ BedIdle
    /\ FileIdle
    /\ tree_sections = <<>>
    /\ block_size \in 2..MaxBlockSize
    /\ tree_out = <<>>
    /\ tree_written = <<>>

\* The section stream yields one more section.
AddSection ==
    /\ tree_out = <<>>
    /\ Len(tree_sections) < MaxLeaves
    /\ \E s \in NextSections(tree_sections) :
        /\ SectionFollows(tree_sections, s)
        /\ tree_sections' = Append(tree_sections, s)
    /\ UNCHANGED <<block_size, tree_out, tree_written>>
    /\ UNCHANGED <<chrom_vars, write_vars, pipe_vars, tfb_vars, bed_vars,
                   file_vars>>

\* get_rtreeindex(sections_stream, options)
BuildIndex ==
    /\ tree_out = <<>>
    /\ tree_out' = <<GetRTreeIndex(tree_sections, block_size)>>
    /\ UNCHANGED <<tree_sections, block_size, tree_written>>
    /\ UNCHANGED <<chrom_vars, write_vars, pipe_vars, tfb_vars, bed_vars,
                   file_vars>>

\* Where the index is written: behind the last section.
EndOfData(ss) ==
    IF ss = <<>> THEN PreData ELSE ss[Len(ss)].offset + ss[Len(ss)].size

\* write_rtreeindex(file, nodes, levels, total_sections, options)
WriteIndex ==
    /\ tree_out # <<>>
    /\ tree_written = <<>>
    /\ tree_written' =
         <<IF WriteRTreeIndexPanics(tree_out[1].nodes, tree_out[1].levels)
           THEN [panic |-> TRUE]
           ELSE WriteRTreeIndex(tree_out[1].nodes, tree_out[1].levels,
                                tree_out[1].total_sections,
                                EndOfData(tree_sections), block_size)>>
    /\ UNCHANGED <<tree_sections, block_size, tree_out>>
    /\ UNCHANGED <<chrom_vars, write_vars, pipe_vars, tfb_vars, bed_vars,
                   file_vars>>

NextRTree ==
    \/ AddSection
    \/ BuildIndex
    \/ WriteIndex

SpecRTree == InitRTree /\ [][NextRTree]_vars

\* ------------------------------------------------------------- BedParser

\* The chromosome names of the inputs, Strings of one or two bytes: of
\* BedParserStreamingIterator's, where their order counts, and of
\* BedParser's, where only their equality does.
ChromNames == {<<1>>, <<1, 2>>, <<2>>}
ParserChromNames == {<<1>>, <<2>>}

\* a <= b for two names, in the order of String.
RECURSIVE NameLeq(_, _)
NameLeq(a, b) ==
    IF a = <<>> THEN TRUE
    ELSE IF b = <<>> THEN FALSE
    ELSE IF Head(a) # Head(b) THEN Head(a) < Head(b)
    ELSE NameLeq(Tail(a), Tail(b))

\* The streams of n records of the chromosomes `chroms`: record i has the
\* value i.
BedStreams(n, chroms) ==
    {[i \in 1..n |-> [chrom |-> names[i], v |-> i]] :
        names \in [1..n -> chroms]}

\* ChromOpt::Same and ChromOpt::Diff(chrom)
ChromOptSame == [kind |-> "Same", chrom |-> <<>>]
ChromOptDiff(chrom) == [kind |-> "Diff", chrom |-> chrom]

\* BedParserState: `pos` records of the stream are read.
BedParserState(pos, active_chrom, next_val) ==
    [pos |-> pos, active_chrom |-> active_chrom, next_val |-> next_val]

\* BedParser::new
BedParserNew == <<BedParserState(0, <<>>, <<>>)>>

\* load_state reaches its `panic!()` arm.
LoadStatePanics(st, switch_chrom) ==
    /\ switch_chrom \/ st.active_chrom # <<>>
    /\ st.active_chrom = <<>>
    /\ st.next_val # <<>>
    /\ st.next_val[1].opt.kind = "Same"

\* `let (chrom, v) = next?;` returns the error of a line that does not
\* parse; such a line is a record without a chromosome.
ParseFails(rec) == rec.chrom = <<>>

\* load_state returns Err: it reads the stream and the line does not parse.
LoadStateFails(st, switch_chrom) ==
    /\ switch_chrom \/ st.active_chrom # <<>>
    /\ st.next_val = <<>>
    /\ st.pos < Len(bed_stream)
    /\ ParseFails(bed_stream[st.pos + 1])

\* The state load_state leaves behind when it returns Err.
FailedState(st) == BedParserState(st.pos + 1, st.active_chrom, <<>>)

\* The part of load_state behind the match: one record is read.
ReadStream(st) ==
    IF st.pos < Len(bed_stream)
    THEN LET rec == bed_stream[st.pos + 1]
             same == st.active_chrom = <<>> \/ st.active_chrom = <<rec.chrom>>
         IN  BedParserState(
                 st.pos + 1,
                 IF same THEN <<rec.chrom>> ELSE <<>>,
                 <<[v |-> rec.v,
                    opt |-> IF same THEN ChromOptSame
                            ELSE ChromOptDiff(rec.chrom)]>>)
    ELSE BedParserState(st.pos, <<>>, <<>>)

\* The arm `(None, Some((v, ChromOpt::Diff(chrom))))` of load_state: the
\* chromosome becomes the active one and the value stays buffered.
SwitchChromByReading(st) ==
    ReadStream(BedParserState(st.pos, <<st.next_val[1].opt.chrom>>, <<>>))
SwitchChrom(st) ==
    BedParserState(st.pos, <<st.next_val[1].opt.chrom>>,
                   <<[v |-> st.next_val[1].v, opt |-> ChromOptSame]>>)

\* The arm `(Some(_), Some(next_val))` of load_state: the value taken out
\* of next_val is put back.
PutBackByReading(st) == ReadStream([st EXCEPT !.next_val = <<>>])
PutBack(st) == st

\* BedParserState::load_state(switch_chrom), where it does not panic.
LoadState(st, switch_chrom) ==
    IF ~switch_chrom /\ st.active_chrom = <<>> THEN st
    ELSE IF st.next_val # <<>>
         THEN IF st.active_chrom = <<>> THEN SwitchChrom(st)
              ELSE PutBack(st)
         ELSE ReadStream(st)

\* The BedChromData next_chrom returns with `chrom`. History: the values
\* next() returned, whether it returned None, and how many values the
\* groups had yielded when next_chrom returned this one.
BedChromData(chrom, at) ==
    [curr_state |-> <<>>, done |-> FALSE, live |-> TRUE, chrom |-> chrom,
     taken |-> <<>>, ended |-> FALSE, at |-> at]

\* How many values the groups 1..n have yielded.
RECURSIVE TakenBy(_)
TakenBy(n) == IF n = 0 THEN 0 ELSE TakenBy(n - 1) + Len(bp_groups[n].taken)

\* A call and what it returned: <<>> is None, <<x>> is Some(x).
Call(op, g, ret) ==
    [op |-> op, g |-> g, ret |-> ret, panic |-> FALSE, err |-> FALSE]
Panic(op, g) ==
    [op |-> op, g |-> g, ret |-> <<>>, panic |-> TRUE, err |-> FALSE]
\* A call that returned Err, or Some(Err(..)).
Failed(op, g) ==
    [op |-> op, g |-> g, ret |-> <<>>, panic |-> FALSE, err |-> TRUE]

\* Every group returned so far is drained and dropped.
GroupsFinished ==
    \A g \in DOMAIN bp_groups : bp_groups[g].ended /\ ~bp_groups[g].live

\* The shared cell after `state.load_state(true)?` returned Err: the state
\* swapped out of the cell is a local of next_chrom and is dropped.
CellAfterError(st) == <<>>

\* BedParser::next_chrom: [state, ret, panic, err], ret the chromosome.
NextChromCall ==
    IF bp_state = <<>>
    THEN [state |-> <<>>, ret |-> <<>>, panic |-> TRUE, err |-> FALSE]
    ELSE IF LoadStatePanics(bp_state[1], TRUE)
    THEN [state |-> <<>>, ret |-> <<>>, panic |-> TRUE, err |-> FALSE]
    ELSE IF LoadStateFails(bp_state[1], TRUE)
    THEN [state |-> CellAfterError(bp_state[1]), ret |-> <<>>,
          panic |-> FALSE, err |-> TRUE]
    ELSE LET st == LoadState(bp_state[1], TRUE)
         IN  [state |-> <<st>>, ret |-> st.active_chrom,
              panic |-> FALSE, err |-> FALSE]

\* The parser's variables after next_chrom.
NextChromEffect(call) ==
    /\ bp_state' = call.state
    /\ bp_panicked' = call.panic
    /\ bp_last' = IF call.panic THEN Panic("next_chrom", 0)
                  ELSE IF call.err THEN Failed("next_chrom", 0)
                  ELSE Call("next_chrom", Len(bp_groups) + 1, call.ret)
    /\ bp_groups' = IF call.ret = <<>> THEN bp_groups
                    ELSE Append(bp_groups,
                                BedChromData(call.ret[1],
                                             TakenBy(Len(bp_groups))))
    /\ bp_in_order' = (bp_in_order /\ GroupsFinished)
    /\ UNCHANGED bed_stream

\* BedParser::next_chrom
ParserNextChrom ==
    /\ ~bp_panicked
    /\ LET call == NextChromCall
       IN  /\ call.ret # <<>> => Len(bp_groups) < MaxGroups
           /\ NextChromEffect(call)
    /\ UNCHANGED advance_vars
    /\ UNCHANGED <<chrom_vars, write_vars, pipe_vars, tfb_vars, tree_vars,
                   file_vars>>

\* The head of next() and peek(): the group takes the state out of the
\* shared cell unless it holds it.
Acquired(g) ==
    IF bp_groups[g].curr_state # <<>> THEN bp_groups[g].curr_state
    ELSE bp_state

\* The shared cell after the head of next() and peek().
SharedAfterAcquire(g) ==
    IF bp_groups[g].curr_state # <<>> THEN bp_state ELSE <<>>

\* The panic of next() and peek(): Acquired(g) is None, or load_state.
ValuePanics(g) ==
    \/ Acquired(g) = <<>>
    \/ ~bp_groups[g].done /\ LoadStatePanics(Acquired(g)[1], FALSE)

\* next() and peek() return Some(Err(..)): load_state(false) failed.
ValueFails(g) ==
    /\ Acquired(g) # <<>>
    /\ ~bp_groups[g].done
    /\ LoadStateFails(Acquired(g)[1], FALSE)

\* The group after next() or peek() returned Some(Err(..)): it holds the
\* state as load_state left it.
GroupFailed(op, g) ==
    /\ bp_last' = Failed(op, g)
    /\ bp_state' = SharedAfterAcquire(g)
    /\ bp_groups' = [bp_groups EXCEPT ![g] =
         [@ EXCEPT !.curr_state = <<FailedState(Acquired(g)[1])>>]]
    /\ UNCHANGED bp_panicked

\* The state next() and peek() look at behind load_state(false).
Loaded(g) ==
    IF bp_groups[g].done THEN Acquired(g)[1]
    ELSE LoadState(Acquired(g)[1], FALSE)

\* What next() and peek() return: None when done or no chromosome is
\* active, else the value of next_val.
ValueOf(g) ==
    IF bp_groups[g].done \/ Loaded(g).active_chrom = <<>> THEN <<>>
    ELSE IF Loaded(g).next_val = <<>> THEN <<>>
    ELSE <<Loaded(g).next_val[1].v>>

\* The state the group holds after peek().
PeekStateTaken(g) == [Loaded(g) EXCEPT !.next_val = <<>>]
PeekState(g) == Loaded(g)

\* `self.done = true`
DoneAfter(g) == bp_groups[g].done \/ Loaded(g).active_chrom = <<>>

\* BedChromData::next
GroupNext(g) ==
    /\ ~bp_panicked
    /\ bp_groups[g].live
    /\ IF ValuePanics(g)
       THEN /\ bp_panicked' = TRUE
            /\ bp_last' = Panic("next", g)
            /\ bp_state' = SharedAfterAcquire(g)
            /\ UNCHANGED bp_groups
       ELSE IF ValueFails(g) THEN GroupFailed("next", g)
       ELSE /\ bp_last' = Call("next", g, ValueOf(g))
            /\ bp_state' = SharedAfterAcquire(g)
            /\ bp_groups' = [bp_groups EXCEPT ![g] =
                 [@ EXCEPT
                    !.curr_state =
                        <<IF ValueOf(g) = <<>> THEN Loaded(g)
                          ELSE [Loaded(g) EXCEPT !.next_val = <<>>]>>,
                    !.done = DoneAfter(g),
                    !.taken = @ \o ValueOf(g),
                    !.ended = @ \/ ValueOf(g) = <<>>]]
            /\ UNCHANGED bp_panicked
    /\ UNCHANGED <<bed_stream, bp_in_order>>
    /\ UNCHANGED advance_vars
    /\ UNCHANGED <<chrom_vars, write_vars, pipe_vars, tfb_vars, tree_vars,
                   file_vars>>

\* BedChromData::peek
GroupPeek(g) ==
    /\ ~bp_panicked
    /\ bp_groups[g].live
    /\ IF ValuePanics(g)
       THEN /\ bp_panicked' = TRUE
            /\ bp_last' = Panic("peek", g)
            /\ bp_state' = SharedAfterAcquire(g)
            /\ UNCHANGED bp_groups
       ELSE IF ValueFails(g) THEN GroupFailed("peek", g)
       ELSE /\ bp_last' = Call("peek", g, ValueOf(g))
            /\ bp_state' = SharedAfterAcquire(g)
            /\ bp_groups' = [bp_groups EXCEPT ![g] =
                 [@ EXCEPT !.curr_state = <<PeekState(g)>>,
                           !.done = DoneAfter(g)]]
            /\ UNCHANGED bp_panicked
    /\ UNCHANGED <<bed_stream, bp_in_order>>
    /\ UNCHANGED advance_vars
    /\ UNCHANGED <<chrom_vars, write_vars, pipe_vars, tfb_vars, tree_vars,
                   file_vars>>

\* Drop for BedChromData
GroupDrop(g) ==
    /\ ~bp_panicked
    /\ bp_groups[g].live
    /\ bp_state' = IF bp_groups[g].curr_state # <<>>
                   THEN bp_groups[g].curr_state ELSE bp_state
    /\ bp_groups' = [bp_groups EXCEPT ![g] =
                        [@ EXCEPT !.curr_state = <<>>, !.live = FALSE]]
    /\ bp_last' = Call("drop", g, <<>>)
    /\ UNCHANGED <<bed_stream, bp_panicked, bp_in_order>>
    /\ UNCHANGED advance_vars
    /\ UNCHANGED <<chrom_vars, write_vars, pipe_vars, tfb_vars, tree_vars,
                   file_vars>>

ParserNew ==
    /\ bp_state = BedParserNew
    /\ bp_groups = <<>>
    /\ bp_panicked = FALSE
    /\ bp_last = Call("new", 0, <<>>)
    /\ bp_in_order = TRUE

AdvanceIdle ==
    /\ allow_out_of_order_chroms = TRUE
    /\ chrom_map = {}
    /\ last_chrom = <<>>
    /\ chrom_ids = <<>>
    /\ spawned = <<>>
    /\ adv_result = AdvanceNone
    /\ real_ids = <<>>

InitBed ==
    /\ ChromIdle
    /\ WriteIdle
    /\ PipeIdle
    /\ BufferIdle
    /\ TreeIdle
    /\ FileIdle
    /\ \E n \in 0..MaxBedRecs : bed_stream \in BedStreams(n, ParserChromNames)
    /\ ParserNew
    /\ AdvanceIdle

\* The input may hold lines that do not parse.
InitBedLines ==
    /\ ChromIdle
    /\ WriteIdle
    /\ PipeIdle
    /\ BufferIdle
    /\ TreeIdle
    /\ FileIdle
    /\ \E n \in 0..MaxBedRecs :
           bed_stream \in BedStreams(n, ParserChromNames \cup {<<>>})
    /\ ParserNew
    /\ AdvanceIdle

ChromDataNext == \E g \in DOMAIN bp_groups : GroupNext(g)
ChromDataPeek == \E g \in DOMAIN bp_groups : GroupPeek(g)
ChromDataDrop == \E g \in DOMAIN bp_groups : GroupDrop(g)

NextBed ==
    \/ ParserNextChrom
    \/ ChromDataNext
    \/ ChromDataPeek
    \/ ChromDataDrop

SpecBed == InitBed /\ [][NextBed]_vars

SpecBedLines == InitBedLines /\ [][NextBed]_vars

\* ------------------------------------------- BedParserStreamingIterator

\* What advance returned: kind is "NewChrom", "Finished", or the
\* InvalidInput error "NotSorted" or "UnknownChrom"; UnknownChrom's message
\* holds `chrom`. History: last_chrom, chrom_ids and the processors as
\* the call found them.
AdvanceResult(kind, chrom) ==
    [kind |-> kind, chrom |-> chrom, last |-> last_chrom, ids |-> chrom_ids,
     spawned |-> spawned]

\* `c >= chrom`
OutOfOrderStrict(c, chrom) == ~NameLeq(c, chrom)
OutOfOrder(c, chrom) == NameLeq(chrom, c)

\* `self.chrom_map.get(&chrom)` is Some.
HasLengthAlways(chrom) == TRUE
HasLength(chrom) == chrom \in chrom_map

\* IdMap::get_id: the id of the name, a new one for a name not yet seen.
GetIdAlwaysNew(ids, chrom) == Append(ids, chrom)
GetId(ids, chrom) ==
    IF \E i \in DOMAIN ids : ids[i] = chrom THEN ids ELSE Append(ids, chrom)

\* The id the IdMap holds for the name.
IdOf(ids, chrom) == (CHOOSE i \in DOMAIN ids : ids[i] = chrom) - 1

\* read_data: the chromosome and the id do_read hands to its processor.
ReadData(ids, chrom) == [chrom |-> chrom, chrom_id |-> IdOf(ids, chrom)]

\* advance's arm `Ok(Some((chrom, group)))`: the kind of its return.
NewChromKind(chrom) ==
    IF /\ last_chrom # <<>>
       /\ ~allow_out_of_order_chroms
       /\ OutOfOrder(last_chrom[1], chrom)
    THEN "NotSorted"
    ELSE IF ~HasLength(chrom) THEN "UnknownChrom"
    ELSE "NewChrom"

\* The groups after advance: an early return drops the group next_chrom
\* returned.
DropUnread(groups, kind) ==
    IF kind = "NewChrom" THEN groups
    ELSE [groups EXCEPT ![Len(groups)] = [@ EXCEPT !.live = FALSE]]

\* The head of write_vals' loop: BedParserStreamingIterator::advance, with
\* a do_read that spawns a processor for the chromosome, and write_vals'
\* own get_id for the chromosome it is handed
StreamingAdvance ==
    /\ ~bp_panicked
    /\ adv_result.kind \in {"none", "NewChrom"}
    /\ LET call == NextChromCall
           kind == NewChromKind(call.ret[1])
       IN  /\ call.ret # <<>> => Len(bp_groups) < MaxGroups
           /\ bp_state' = call.state
           /\ bp_panicked' = call.panic
           /\ bp_last' = IF call.panic THEN Panic("next_chrom", 0)
                         ELSE IF call.err THEN Failed("next_chrom", 0)
                         ELSE Call("next_chrom", Len(bp_groups) + 1, call.ret)
           /\ bp_in_order' = (bp_in_order /\ GroupsFinished)
           /\ IF call.panic
              THEN UNCHANGED <<bp_groups, advance_vars>>
              ELSE IF call.err
              THEN /\ adv_result' = AdvanceResult("Error", <<>>)
                   /\ UNCHANGED <<bp_groups, last_chrom, chrom_ids, spawned,
                                  real_ids>>
              ELSE IF call.ret = <<>>
              THEN /\ adv_result' = AdvanceResult("Finished", <<>>)
                   /\ UNCHANGED <<bp_groups, last_chrom, chrom_ids, spawned,
                                  real_ids>>
              ELSE /\ bp_groups' =
                        DropUnread(
                            Append(bp_groups,
                                   BedChromData(call.ret[1],
                                                TakenBy(Len(bp_groups)))),
                            kind)
                   /\ last_chrom' = call.ret
                   /\ adv_result' = AdvanceResult(kind, call.ret[1])
                   /\ chrom_ids' = IF kind = "NewChrom"
                                   THEN GetId(chrom_ids, call.ret[1])
                                   ELSE chrom_ids
                   /\ spawned' = IF kind = "NewChrom"
                                 THEN Append(spawned,
                                             ReadData(chrom_ids', call.ret[1]))
                                 ELSE spawned
                   /\ real_ids' = IF kind = "NewChrom"
                                  THEN GetId(real_ids, call.ret[1])
                                  ELSE real_ids
    /\ UNCHANGED <<bed_stream, allow_out_of_order_chroms, chrom_map>>
    /\ UNCHANGED <<chrom_vars, write_vars, pipe_vars, tfb_vars, tree_vars,
                   file_vars>>

\* The processor of the chromosome started last reads a value ...
ProcessorNext ==
    /\ bp_groups # <<>>
    /\ GroupNext(Len(bp_groups))

\* ... and ends.
ProcessorDrop ==
    /\ bp_groups # <<>>
    /\ GroupDrop(Len(bp_groups))

InitAdvance ==
    /\ ChromIdle
    /\ WriteIdle
    /\ PipeIdle
    /\ BufferIdle
    /\ TreeIdle
    /\ FileIdle
    /\ \E n \in 0..MaxBedRecs : bed_stream \in BedStreams(n, ChromNames)
    /\ ParserNew
    /\ allow_out_of_order_chroms \in BOOLEAN
    /\ \E unknown \in SUBSET ChromNames :
         /\ Cardinality(unknown) <= 1
         /\ chrom_map = ChromNames \ unknown
    /\ last_chrom = <<>>
    /\ chrom_ids = <<>>
    /\ spawned = <<>>
    /\ adv_result = AdvanceNone
    /\ real_ids = <<>>

NextAdvance ==
    \/ StreamingAdvance
    \/ ProcessorNext
    \/ ProcessorDrop

SpecAdvance == InitAdvance /\ [][NextAdvance]_vars

\* ---------------------------------------------------------------- SpecThin
\* The BedParserStreamingIterator of bedchromdata.rs, a thin wrapper of
\* next_chrom that checks the order of the chromosomes; its caller calls
\* advance once more after Finished.

\* What advance returned, and whether Finished had been returned before
\* the call.
ThinResult(kind, chrom, again) ==
    [kind |-> kind, chrom |-> chrom, last |-> last_chrom, ids |-> chrom_ids,
     spawned |-> spawned, again |-> again]

\* advance's arm `Some(Ok((chrom, group)))`: the kind of its return.
ThinChromKind(chrom) ==
    IF /\ last_chrom # <<>>
       /\ ~allow_out_of_order_chroms
       /\ OutOfOrder(last_chrom[1], chrom)
    THEN "NotSorted"
    ELSE "NewChrom"

\* advance: next_chrom's None is returned as Finished, a chromosome is
\* checked against last_chrom and handed to do_read.
ThinAdvance ==
    /\ ~bp_panicked
    /\ \/ adv_result.kind \in {"none", "NewChrom"}
       \/ adv_result.kind = "Finished" /\ ~adv_result.again
    /\ LET call == NextChromCall
           kind == ThinChromKind(call.ret[1])
           again == adv_result.kind = "Finished"
       IN  /\ call.ret # <<>> => Len(bp_groups) < MaxGroups
           /\ bp_state' = call.state
           /\ bp_panicked' = call.panic
           /\ bp_last' = IF call.panic THEN Panic("next_chrom", 0)
                         ELSE IF call.err THEN Failed("next_chrom", 0)
                         ELSE Call("next_chrom", Len(bp_groups) + 1, call.ret)
           /\ bp_in_order' = (bp_in_order /\ GroupsFinished)
           /\ IF call.panic
              THEN UNCHANGED <<bp_groups, last_chrom, spawned, adv_result>>
              ELSE IF call.err
              THEN /\ adv_result' = ThinResult("Error", <<>>, again)
                   /\ UNCHANGED <<bp_groups, last_chrom, spawned>>
              ELSE IF call.ret = <<>>
              THEN /\ adv_result' = ThinResult("Finished", <<>>, again)
                   /\ UNCHANGED <<bp_groups, last_chrom, spawned>>
              ELSE /\ bp_groups' =
                        DropUnread(
                            Append(bp_groups,
                                   BedChromData(call.ret[1],
                                                TakenBy(Len(bp_groups)))),
                            kind)
                   /\ last_chrom' = call.ret
                   /\ adv_result' = ThinResult(kind, call.ret[1], again)
                   /\ spawned' = IF kind = "NewChrom"
                                 THEN Append(spawned, call.ret[1])
                                 ELSE spawned
    /\ UNCHANGED <<bed_stream, allow_out_of_order_chroms, chrom_map,
                   chrom_ids, real_ids>>
    /\ UNCHANGED <<chrom_vars, write_vars, pipe_vars, tfb_vars, tree_vars,
                   file_vars>>

InitThin ==
    /\ ChromIdle
    /\ WriteIdle
    /\ PipeIdle
    /\ BufferIdle
    /\ TreeIdle
    /\ FileIdle
    /\ \E n \in 0..MaxBedRecs : bed_stream \in BedStreams(n, ChromNames)
    /\ ParserNew
    /\ allow_out_of_order_chroms \in BOOLEAN
    /\ chrom_map = {}
    /\ last_chrom = <<>>
    /\ chrom_ids = <<>>
    /\ spawned = <<>>
    /\ adv_result = AdvanceNone
    /\ real_ids = <<>>

NextThin ==
    \/ ThinAdvance
    \/ ProcessorNext
    \/ ProcessorDrop

SpecThin == InitThin /\ [][NextThin]_vars

\* ------------------------------------------------------ BigWigWrite::write

\* The zoom ladder: `successors(Some(initial_zoom_size), |z| z * 4)`.
RECURSIVE ZoomLadder(_, _)
ZoomLadder(size, n) ==
    IF n = 0 THEN <<>> ELSE <<size>> \o ZoomLadder(size * 4, n - 1)

\* The byte sizes the data of the levels may have: one section each, but
\* for at most two levels of two sections.
ZoomDataSizes(max_zooms) ==
    {[i \in 1..max_zooms |->
         IF i \in large THEN 2 * FileSectionSize ELSE FileSectionSize] :
        large \in {l \in SUBSET (1..max_zooms) : Cardinality(l) <= 2}}

\* The options of the writer.
FileOptionChoices ==
    [max_zooms : 0..MaxFileZooms,
     compress : BOOLEAN,
     items_per_slot : {FileItemsPerSlot}]

\* encode_section for a section of n items: the bytes before compression
\* and the uncompress_buf_size returned with the section.
EncodeSection(compress, n) ==
    LET bytes == (4 + 4 + 4 + 4 + 4 + 1 + 1 + 2) + n * (4 + 4 + 4)
    IN  [bytes |-> bytes,
         uncompress_buf_size |-> IF compress THEN bytes ELSE 0]

\* The item counts of the primary sections: a section is cut when it holds
\* items_per_slot items, the last one holds what is left.
SectionItemCounts(opts) ==
    {<<>>} \cup
    {[i \in 1..n |-> IF i < n THEN opts.items_per_slot ELSE last] :
        n \in 1..MaxFileSections, last \in 1..opts.items_per_slot}

\* What write_vals returns under the options opts: the primary sections
\* written behind pre_data, each with its size in the file and what
\* encode_section returned for it, and per level [reduction_level, size]
\* with the byte size of its temporary file.
WriteValsResults(opts) ==
    {[sections |-> [i \in DOMAIN counts |-> FileSectionSize],
      encoded |-> [i \in DOMAIN counts |->
                      EncodeSection(opts.compress, counts[i])],
      zooms |-> [i \in 1..opts.max_zooms |->
                    [reduction_level |-> ZoomLadder(10, opts.max_zooms)[i],
                     size |-> sizes[i]]]] :
        counts \in SectionItemCounts(opts),
        sizes \in ZoomDataSizes(opts.max_zooms)}

\* write_groups: the uncompress_buf_size of the header.
UncompressBufSize(opts) ==
    IF opts.compress
    THEN opts.items_per_slot * (1 + 1 + 2 + 4 + 4 + 4 + 4 + 8 + 8)
    ELSE 0

\* file.tell() at the end of the file.
Tell(f) == Bytes(f)

\* write_blank_headers: the common header and the zoom levels.
WriteBlankHeadersOneLevelLess ==
    <<Block("header", 0, 0, 64),
      Block("zoom_headers", 0, 0, (MAX_ZOOM_LEVELS - 1) * 24)>>
WriteBlankHeaders ==
    <<Block("header", 0, 0, 64),
      Block("zoom_headers", 0, 0, MAX_ZOOM_LEVELS * 24)>>

\* The bytes of the total summary: `file.write_all(&[0; 40])`.
TotalSummarySize == 8 + 8 + 8 + 8 + 8

\* The widths of the fields write puts at the start of the file: magic,
\* version, zoom levels, three offsets, two field counts, the autoSQL
\* offset, the total summary offset, uncompress_buf_size, reserved.
HeaderFieldsShort == <<4, 2, 2, 8, 8, 8, 2, 2, 8, 8, 4, 4>>
HeaderFields == <<4, 2, 2, 8, 8, 8, 2, 2, 8, 8, 4, 8>>

RECURSIVE SumOf(_)
SumOf(widths) == IF widths = <<>> THEN 0 ELSE Head(widths) + SumOf(Tail(widths))

\* The loop of write_zooms from zoom i on: st is [file, zoom_entries,
\* zoom_count].
\* `if zoom_count >= MAX_ZOOM_LEVELS { break; }`
ZoomsFullNever(zoom_count) == FALSE
ZoomsFull(zoom_count) == zoom_count >= MAX_ZOOM_LEVELS

RECURSIVE WriteZoomsFrom(_, _, _, _)
WriteZoomsFrom(zooms, i, st, data_size) ==
    IF i > Len(zooms) THEN st
    ELSE IF ~ZoomKept(zooms[i].size, data_size)
         THEN WriteZoomsFrom(zooms, i + 1, st, data_size)
         ELSE LET zoom_data_offset == Tell(st.file)
                  with_data == Append(st.file,
                                      Block("zoom", i, 0, zooms[i].size))
                  zoom_index_offset == Tell(with_data)
                  next ==
                    [file |-> Append(with_data,
                                     Block("zoom_rtree", i, 0,
                                           RTreeBytes(zooms[i].size
                                                        \div FileSectionSize))),
                     zoom_entries |->
                         Append(st.zoom_entries,
                                [reduction_level |-> zooms[i].reduction_level,
                                 data_offset |-> zoom_data_offset,
                                 index_offset |-> zoom_index_offset]),
                     zoom_count |-> st.zoom_count + 1]
              IN  IF ZoomsFull(next.zoom_count) THEN next
                  ELSE WriteZoomsFrom(zooms, i + 1, next, data_size)

\* write_zooms(file, zooms, zoom_entries, data_size, options)
WriteZooms(f, zooms, data_size) ==
    WriteZoomsFrom(zooms, 1,
                   [file |-> f, zoom_entries |-> <<>>, zoom_count |-> 0],
                   data_size)

InitFile ==
    /\ ChromIdle
    /\ WriteIdle
    /\ PipeIdle
    /\ BufferIdle
    /\ TreeIdle
    /\ BedIdle
    /\ ChromTreeIdle
    /\ SourceIdle
    /\ SchedIdle
    /\ LateIdle
    /\ fw_pc = "start"
    /\ fw_options \in FileOptionChoices
    /\ fw_vals = <<>>
    /\ fw_file = <<>>
    /\ fw_zoom_entries = <<>>
    /\ fw_header = <<>>

\* write up to the return of write_vals: the blank headers, the total
\* summary, the section count, and the section data write_vals wrote.
FileWriteVals ==
    /\ fw_pc = "start"
    /\ \E res \in WriteValsResults(fw_options) :
        LET blank == WriteBlankHeaders
            total_summary_offset == Tell(blank)
            with_summary == Append(blank,
                                   Block("summary", 0, 0, TotalSummarySize))
            full_data_offset == Tell(with_summary)
            with_count == Append(with_summary, Block("count", 0, 0, 8))
            pre_data == Tell(with_count)
        IN  /\ fw_vals' = <<res>>
            /\ fw_file' = with_count \o
                   [i \in DOMAIN res.sections |->
                       Block("data", 0, i, res.sections[i])]
            /\ fw_header' = [total_summary_offset |-> total_summary_offset,
                             full_data_offset |-> full_data_offset,
                             pre_data |-> pre_data]
    /\ fw_pc' = "indexes"
    /\ UNCHANGED <<fw_options, fw_zoom_entries>>
    /\ UNCHANGED <<chrom_vars, write_vars, pipe_vars, tfb_vars, tree_vars,
                   bed_vars, chrom_tree_vars, source_vars,
                   sched_vars, late_vars>>

\* write behind write_vals: the chromosome tree, the primary index and
\* write_zooms.
FileWriteIndexes ==
    /\ fw_pc = "indexes"
    /\ LET data_size == Tell(fw_file) - fw_header.pre_data
           chrom_index_start == Tell(fw_file)
           with_chroms == Append(fw_file,
                                 Block("chrom_tree", 0, 0, ChromTreeBytes(1)))
           index_start == Tell(with_chroms)
           with_index == Append(with_chroms,
                                Block("rtree", 0, 0,
                                      RTreeBytes(Len(fw_vals[1].sections))))
           zoomed == WriteZooms(with_index, fw_vals[1].zooms, data_size)
       IN  /\ fw_file' = zoomed.file
           /\ fw_zoom_entries' = zoomed.zoom_entries
           /\ fw_header' = [chrom_index_start |-> chrom_index_start,
                            index_start |-> index_start,
                            data_size |-> data_size] @@ fw_header
    /\ fw_pc' = "header"
    /\ UNCHANGED <<fw_options, fw_vals>>
    /\ UNCHANGED <<chrom_vars, write_vars, pipe_vars, tfb_vars, tree_vars,
                   bed_vars, chrom_tree_vars, source_vars,
                   sched_vars, late_vars>>

\* The writes at the end of write behind a seek, as [at, bytes]: the
\* header fields and the zoom entries from Start(0), the total summary
\* from Start(total_summary_offset), the section count from
\* Start(full_data_offset).
BackPatches ==
    <<[at |-> 0, bytes |-> SumOf(HeaderFields)],
      [at |-> SumOf(HeaderFields),
       bytes |-> Len(fw_zoom_entries) * (4 + 4 + 8 + 8)],
      [at |-> fw_header.total_summary_offset, bytes |-> 8 + 8 + 8 + 8 + 8],
      [at |-> fw_header.full_data_offset, bytes |-> 8]>>

\* `file.seek(SeekFrom::End(0))` and the magic written there.
MagicTrailer == Block("magic", 0, 0, 4)

\* The end of write: the header fields from position 0, the zoom entries
\* behind them, the total summary and the section count at their offsets,
\* and the magic at the end of the file.
FileWriteHeader ==
    /\ fw_pc = "header"
    /\ fw_header' = [zoom_levels |-> Len(fw_zoom_entries),
                     uncompress_buf_size |-> UncompressBufSize(fw_options),
                     zoom_entries |->
                         [i \in DOMAIN fw_zoom_entries |->
                             <<fw_zoom_entries[i].reduction_level, 0,
                               fw_zoom_entries[i].data_offset,
                               fw_zoom_entries[i].index_offset>>],
                     header_end |-> SumOf(HeaderFields),
                     zoom_entries_end |->
                         SumOf(HeaderFields)
                           + Len(fw_zoom_entries) * (4 + 4 + 8 + 8),
                     total_summary_at |-> fw_header.total_summary_offset,
                     section_count_at |-> fw_header.full_data_offset,
                     patches |-> BackPatches]
                    @@ fw_header
    /\ fw_file' = Append(fw_file, MagicTrailer)
    /\ fw_pc' = "done"
    /\ UNCHANGED <<fw_options, fw_vals, fw_zoom_entries>>
    /\ UNCHANGED <<chrom_vars, write_vars, pipe_vars, tfb_vars, tree_vars,
                   bed_vars, chrom_tree_vars, source_vars,
                   sched_vars, late_vars>>

NextFile ==
    \/ FileWriteVals
    \/ FileWriteIndexes
    \/ FileWriteHeader

SpecFile == InitFile /\ [][NextFile]_vars

\* --------------------------------------------------------- write_chrom_tree

\* `chroms.sort()`: the order of String.
NameLess(a, b) == a # b /\ NameLeq(a, b)

\* The key of a name: its bytes, padded with zeros to max_bytes.
KeyBytes(chrom, max_bytes) ==
    [i \in 1..max_bytes |-> IF i <= Len(chrom) THEN chrom[i] ELSE 0]

\* `chroms.iter().map(|a| a.len() as u32).fold(0, u32::max)`
FoldMaxLen(chroms) ==
    LET lens == {0} \cup {Len(chroms[i]) : i \in DOMAIN chroms}
    IN  CHOOSE l \in lens : \A o \in lens : o <= l

\* `std::cmp::max(256, item_count) as u32`
TreeBlockSizeOfItems(item_count) == item_count
TreeBlockSize(item_count) == Max(256, item_count)

\* `item_count as u16`, the count of the node.
NodeCount(item_count) == item_count % U16_RANGE

\* write_chrom_tree(file, chrom_sizes, chrom_ids): the header, the one
\* leaf node and its items, or a panic at a name without a length.
WriteChromTreeOf(chrom_sizes, ids, keys) ==
    LET chroms == SortSeq(keys, NameLess)
        item_count == Len(chroms)
        tree_block_size == TreeBlockSize(item_count)
        max_bytes == FoldMaxLen(keys)
    IN  IF \E i \in DOMAIN chroms : chroms[i] \notin DOMAIN chrom_sizes
        THEN [panic |-> "Expected length for chrom"]
        ELSE [block_size |-> tree_block_size,
              key_size |-> max_bytes,
              val_size |-> 8,
              item_count |-> item_count,
              is_leaf |-> 1,
              count |-> NodeCount(item_count),
              items |-> [i \in DOMAIN chroms |->
                            [key |-> KeyBytes(chroms[i], max_bytes),
                             id |-> ids[chroms[i]],
                             length |-> chrom_sizes[chroms[i]]]]]

\* The id maps of the chromosomes `names`: the ids are 0..n-1.
IdMaps(names) ==
    {ids \in [names -> 0..(Cardinality(names) - 1)] :
        \A a, b \in names : a # b => ids[a] # ids[b]}

\* The keys of an id map, by id.
KeysOf(ids) ==
    [i \in 1..Cardinality(DOMAIN ids) |->
        CHOOSE name \in DOMAIN ids : ids[name] = i - 1]

\* An input of many chromosomes: n names, the ids in the order of the
\* names, every length 1.
ManyChroms(n) ==
    LET names == {<<i>> : i \in 1..n}
    IN  [sizes |-> [name \in names |-> 1],
         ids |-> [name \in names |-> name[1] - 1],
         keys |-> [i \in 1..n |-> <<i>>]]

\* What write may pass to write_chrom_tree: the id map of the chromosomes
\* that appeared, and chrom_sizes, which has a length for each of them and
\* may have more entries.
ChromTreeInputs ==
    {[sizes |-> sizes, ids |-> ids, keys |-> KeysOf(ids)] :
        ids \in UNION {IdMaps(names) : names \in SUBSET ChromNames},
        sizes \in UNION {[known -> 1..MaxTreeLength] :
                            known \in SUBSET ChromNames}}

InitChromTree ==
    /\ ChromIdle
    /\ WriteIdle
    /\ PipeIdle
    /\ BufferIdle
    /\ TreeIdle
    /\ BedIdle
    /\ WriteFieldsIdle
    /\ SourceIdle
    /\ SchedIdle
    /\ LateIdle
    /\ \E in \in {i \in ChromTreeInputs : DOMAIN i.ids \subseteq DOMAIN i.sizes}
                 \cup {ManyChroms(U16_RANGE)} :
        /\ ct_sizes = in.sizes
        /\ ct_ids = in.ids
        /\ ct_keys = in.keys
    /\ ct_tree = <<>>

\* `write_chrom_tree(&mut file, chrom_sizes, &chrom_ids.get_map())`
WriteChromTree ==
    /\ ct_tree = <<>>
    /\ ct_tree' = <<WriteChromTreeOf(ct_sizes, ct_ids, ct_keys)>>
    /\ UNCHANGED <<ct_sizes, ct_ids, ct_keys>>
    /\ UNCHANGED <<chrom_vars, write_vars, pipe_vars, tfb_vars, tree_vars,
                   bed_vars, write_fields, source_vars,
                   sched_vars, late_vars>>

NextChromTree ==
    \/ WriteChromTree

SpecChromTree == InitChromTree /\ [][NextChromTree]_vars

\* -------------------------------------------------------------- SpecSource
\* process_chrom over the BedChromData of bedparser.rs when the stream
\* under it yields errors among the records of the chromosome.

MaxSourceLen == 4

\* An element of the stream is a record or an error.
IsError(e) == "error" \in DOMAIN e

SourceError == [error |-> "io"]

\* The state of the group: the elements taken from the stream, the buffered
\* next_val and done (the stream ended: active_chrom is None).
SourceState == [pos |-> src_pos, next_val |-> lookahead, done |-> src_done]

\* load_state(false): with nothing buffered the next element is taken from
\* the stream; `next?` returns an error element to the caller and leaves
\* next_val empty.
SourceLoad(st) ==
    IF st.done \/ st.next_val # <<>>
    THEN [st |-> st, err |-> <<>>]
    ELSE IF st.pos >= Len(src_stream)
         THEN [st |-> [st EXCEPT !.done = TRUE], err |-> <<>>]
         ELSE LET e == src_stream[st.pos + 1] IN
              IF IsError(e)
              THEN [st |-> [st EXCEPT !.pos = @ + 1], err |-> <<e>>]
              ELSE [st |-> [st EXCEPT !.pos = @ + 1, !.next_val = <<e>>],
                    err |-> <<>>]

\* BedChromData::peek: Some(Err(e)) when load_state fails, None at the end,
\* else the buffered value, which stays buffered.
SourcePeek(st) ==
    LET l == SourceLoad(st) IN
    [st |-> l.st,
     ret |-> IF l.err # <<>> THEN [kind |-> "Err", val |-> <<>>]
             ELSE IF l.st.next_val = <<>> THEN [kind |-> "None", val |-> <<>>]
             ELSE [kind |-> "Ok", val |-> l.st.next_val]]

\* BedChromData::next: as peek, but the buffered value is taken.
SourceNext(st) ==
    LET p == SourcePeek(st) IN
    [st |-> [p.st EXCEPT !.next_val = <<>>], ret |-> p.ret]

\* What the match on the first peek() hands to the overlap check:
\* None | Some(Err(_)) => ().
OverlapPeek(ret) == IF ret.kind = "Ok" THEN ret.val ELSE <<>>

SourceValues == {[start |-> i, end |-> i + 1, value |-> 1] : i \in 0..3}

SourceStreams ==
    UNION {[1..n -> SourceValues \cup {SourceError}] : n \in 1..MaxSourceLen}

SourceOptionChoices ==
    {[items_per_slot |-> k, initial_zoom_size |-> InitialZoomSize,
      max_zooms |-> 0] : k \in 1..MaxItemsPerSlot}

\* next_chrom has buffered the first record of the chromosome.
InitSource ==
    /\ \E opts \in SourceOptionChoices, s \in SourceStreams :
          /\ ~IsError(s[1])
          /\ src_stream = s
          /\ StartChrom(opts, 0, <<s[1]>>)
    /\ src_pos = 1
    /\ src_done = FALSE
    /\ WriteIdle
    /\ PipeIdle
    /\ BufferIdle
    /\ TreeIdle
    /\ BedIdle
    /\ WriteFieldsIdle
    /\ ChromTreeIdle
    /\ SchedIdle
    /\ LateIdle

\* One iteration of the loop whose next() returned a record. Without zoom
\* levels the iteration calls peek() twice: for the overlap check and for
\* the section cut.
SourceProcessValue ==
    /\ result = "running"
    /\ LET n == SourceNext(SourceState)
           p1 == SourcePeek(n.st)
           p2 == SourcePeek(p1.st)
           rejected == StartAfterEnd(n.ret.val[1])
                          \/ EndAfterChrom(n.ret.val[1], ChromLength)
           after == IF rejected THEN n.st ELSE p2.st
       IN /\ n.ret.kind = "Ok"
          /\ ProcessRecord(n.ret.val[1],
                           {[peeked |-> OverlapPeek(p1.ret),
                             nxt |-> p2.st.next_val,
                             last |-> (p2.ret.kind = "None")]},
                           ChromLength)
          /\ src_pos' = after.pos
          /\ src_done' = after.done
    /\ UNCHANGED <<src_stream, write_vars, pipe_vars, tfb_vars, tree_vars,
                   bed_vars, write_fields, chrom_tree_vars, sched_vars,
                   late_vars>>

\* next() returns Some(Err(e)): `current_val.map_err(SourceError)?`.
SourceNextFails ==
    /\ result = "running"
    /\ LET n == SourceNext(SourceState)
       IN /\ n.ret.kind = "Err"
          /\ result' = "SourceError"
          /\ lookahead' = n.st.next_val
          /\ src_pos' = n.st.pos
          /\ src_done' = n.st.done
    /\ UNCHANGED <<options, chrom_id, consumed, summary, items, zoom_items,
                   ftx, zooms_channels>>
    /\ UNCHANGED <<src_stream, write_vars, pipe_vars, tfb_vars, tree_vars,
                   bed_vars, write_fields, chrom_tree_vars, sched_vars,
                   late_vars>>

\* next() returns None: the loop ends and the summary is returned.
SourceFinish ==
    /\ result = "running"
    /\ LET n == SourceNext(SourceState)
       IN /\ n.ret.kind = "None"
          /\ lookahead' = n.st.next_val
          /\ src_pos' = n.st.pos
          /\ src_done' = n.st.done
    /\ ReturnSummary
    /\ UNCHANGED <<src_stream, write_vars, pipe_vars, tfb_vars, tree_vars,
                   bed_vars, write_fields, chrom_tree_vars, sched_vars,
                   late_vars>>

NextSource == SourceProcessValue \/ SourceNextFails \/ SourceFinish

SpecSource == InitSource /\ [][NextSource]_vars

\* ------------------------------------------------------------ SpecParallel
\* BedParserParallelStreamingIterator::advance over an index of chromosomes.

MaxIndexed == 6

ParEntry(kind, chrom) == [kind |-> kind, chrom |-> chrom]

\* begin_next: the next indexed chromosome is popped; last_chrom is replaced
\* before the order is checked; do_read is called for an accepted one.
BeginNext(st) ==
    IF st.indices = <<>>
    THEN [st |-> st, entry |-> ParEntry("Finished", <<>>)]
    ELSE LET chrom == Head(st.indices)
             popped == [st EXCEPT !.indices = Tail(@), !.last = <<chrom>>]
         IN  IF st.last # <<>> /\ ~par_allow /\ OutOfOrder(st.last[1], chrom)
             THEN [st |-> popped, entry |-> ParEntry("Error", chrom)]
             ELSE [st |-> [popped EXCEPT !.started = Append(@, chrom)],
                   entry |-> ParEntry("NewChrom", chrom)]

\* (mutant: the queue is topped up whatever its last entry is)
QueueOpenWhateverBack(q) == Len(q) < MaxQueuedReads
\* The condition of advance's loop: the queue is short and its back is None
\* or a NewChrom.
QueueOpen(q) ==
    /\ Len(q) < MaxQueuedReads
    /\ (q = <<>> \/ q[Len(q)].kind = "NewChrom")

RECURSIVE ParFillQueue(_, _)
ParFillQueue(q, st) ==
    IF QueueOpen(q)
    THEN LET b == BeginNext(st) IN ParFillQueue(Append(q, b.entry), b.st)
    ELSE [queue |-> q, st |-> st]

\* The index of the file: the chromosomes begun so far, then those left.
ParBegun == par_returned \o par_queue
ParIndexed ==
    [i \in DOMAIN SelectSeq(ParBegun, LAMBDA e : e.kind # "Finished") |->
        SelectSeq(ParBegun, LAMBDA e : e.kind # "Finished")[i].chrom]
      \o par_indices

\* An index of n chromosomes in ascending order, and the same with two
\* neighbours exchanged or with one name repeated.
Ascending(n) == [i \in 1..n |-> <<i>>]
Exchanged(n, j) ==
    [i \in 1..n |-> IF i = j THEN <<j + 1>> ELSE IF i = j + 1 THEN <<j>>
                    ELSE <<i>>]
Repeated(n, j) == [i \in 1..n |-> IF i = j + 1 THEN <<j>> ELSE <<i>>]
ParIndexInputs ==
    {Ascending(n) : n \in 0..MaxIndexed}
      \cup {Exchanged(n, j) : n \in 2..MaxIndexed, j \in 1..(MaxIndexed - 1)}
      \cup {Repeated(n, j) : n \in 2..MaxIndexed, j \in 1..(MaxIndexed - 1)}

InitParallel ==
    /\ ChromIdle
    /\ WriteIdle
    /\ PipeIdle
    /\ BufferIdle
    /\ TreeIdle
    /\ BedIdle
    /\ WriteFieldsIdle
    /\ ChromTreeIdle
    /\ SourceIdle
    /\ SchedIdle
    /\ GraphIdle
    /\ par_allow \in BOOLEAN
    /\ par_last_chrom = <<>>
    /\ par_indices \in ParIndexInputs
    /\ par_queue = <<>>
    /\ par_started = <<>>
    /\ par_returned = <<>>

\* One call of advance: the queue is topped up and its front is returned.
\* The caller calls once more than there are chromosomes.
ParallelAdvance ==
    /\ Len(par_returned) <= Len(ParIndexed)
    /\ LET f == ParFillQueue(par_queue,
                             [indices |-> par_indices, last |-> par_last_chrom,
                              started |-> par_started])
       IN  /\ par_queue' = Tail(f.queue)
           /\ par_returned' = Append(par_returned, Head(f.queue))
           /\ par_indices' = f.st.indices
           /\ par_last_chrom' = f.st.last
           /\ par_started' = f.st.started
    /\ UNCHANGED <<par_allow, early_vars, graph_vars>>

NextParallel == ParallelAdvance

SpecParallel == InitParallel /\ [][NextParallel]_vars

\* --------------------------------------- bedgraphparser: BedGraphParser

\* ChromOpt::None of bedgraphparser
ChromOptNone == [kind |-> "None", chrom |-> <<>>]

\* BedGraphParserState: `pos` records of the stream are read.
BedGraphParserState(pos, curr_chrom, curr_val, next_chrom, next_val) ==
    [pos |-> pos, curr_chrom |-> curr_chrom, curr_val |-> curr_val,
     next_chrom |-> next_chrom, next_val |-> next_val]

\* BedGraphParser::new
BedGraphParserNew ==
    <<BedGraphParserState(0, <<>>, <<>>, ChromOptNone, <<>>)>>

\* The head of advance: curr_val takes next_val, curr_chrom follows
\* next_chrom, which becomes ChromOpt::None.
ShiftValues(st) ==
    BedGraphParserState(
        st.pos,
        IF st.next_chrom.kind = "Diff" THEN <<st.next_chrom.chrom>>
        ELSE IF st.next_chrom.kind = "Same" THEN st.curr_chrom
        ELSE <<>>,
        st.next_val, ChromOptNone, <<>>)

\* `if let Some(..) = self.stream.next()?`: the record read becomes
\* next_val, next_chrom says whether its chromosome is curr_chrom.
ReadValue(st) ==
    IF st.pos < Len(bg_stream)
    THEN LET rec == bg_stream[st.pos + 1]
         IN  [st EXCEPT
                !.pos = @ + 1,
                !.next_val = <<rec.v>>,
                !.next_chrom = IF st.curr_chrom = <<rec.chrom>>
                               THEN ChromOptSame
                               ELSE ChromOptDiff(rec.chrom)]
    ELSE st

\* BedGraphParserState::advance
RECURSIVE StateAdvance(_)
StateAdvance(st) ==
    LET read == ReadValue(ShiftValues(st))
    IN  IF read.curr_val = <<>> /\ read.next_val # <<>>
        THEN StateAdvance(read)
        ELSE read

\* The ChromGroup BedGraphParser::next returns.
ChromGroup(chrom) == [curr_state |-> <<>>, live |-> TRUE, chrom |-> chrom]

\* BedGraphParser::next
BedGraphParserNext ==
    /\ ~bg_panicked
    /\ IF bg_state = <<>> \/ bg_state[1].next_chrom.kind = "Same"
       THEN /\ bg_panicked' = TRUE
            /\ bg_state' = <<>>
            /\ bg_last' = Panic("parser_next", 0)
            /\ UNCHANGED bg_groups
       ELSE LET st == StateAdvance(bg_state[1])
            IN  /\ st.curr_chrom # <<>> => Len(bg_groups) < MaxGraphGroups
                /\ bg_state' = <<st>>
                /\ bg_groups' = IF st.curr_chrom = <<>> THEN bg_groups
                                ELSE Append(bg_groups,
                                            ChromGroup(st.curr_chrom[1]))
                /\ bg_last' = Call("parser_next", Len(bg_groups) + 1,
                                   st.curr_chrom)
                /\ UNCHANGED bg_panicked
    /\ UNCHANGED bg_stream
    /\ UNCHANGED <<early_vars, par_vars>>

\* The head of ChromGroup::next and peek: the state the group holds, or
\* the one it takes out of the shared cell; <<>> is the panic.
GroupState(g) ==
    IF bg_groups[g].curr_state # <<>> THEN bg_groups[g].curr_state
    ELSE bg_state

\* The shared cell behind the head of next and peek.
CellAfter(g) == IF bg_groups[g].curr_state # <<>> THEN bg_state ELSE <<>>

\* ChromGroup::next on the state st: [ret, state].
NextValue(st) ==
    IF st.curr_val # <<>>
    THEN [ret |-> st.curr_val, state |-> [st EXCEPT !.curr_val = <<>>]]
    ELSE IF st.next_chrom.kind = "Diff"
    THEN [ret |-> <<>>, state |-> st]
    ELSE LET adv == StateAdvance(st)
         IN  [ret |-> adv.curr_val, state |-> [adv EXCEPT !.curr_val = <<>>]]

\* ChromGroup::peek on the state st.
PeekValue(st) == IF st.next_chrom.kind = "Diff" THEN <<>> ELSE st.next_val

\* ChromGroup::next
ChromGroupNext(g) ==
    /\ ~bg_panicked
    /\ bg_groups[g].live
    /\ IF GroupState(g) = <<>>
       THEN /\ bg_panicked' = TRUE
            /\ bg_last' = Panic("next", g)
            /\ UNCHANGED <<bg_state, bg_groups>>
       ELSE LET n == NextValue(GroupState(g)[1])
            IN  /\ bg_last' = Call("next", g, n.ret)
                /\ bg_state' = CellAfter(g)
                /\ bg_groups' = [bg_groups EXCEPT
                                    ![g].curr_state = <<n.state>>]
                /\ UNCHANGED bg_panicked
    /\ UNCHANGED bg_stream
    /\ UNCHANGED <<early_vars, par_vars>>

\* ChromGroup::peek
ChromGroupPeek(g) ==
    /\ ~bg_panicked
    /\ bg_groups[g].live
    /\ IF GroupState(g) = <<>>
       THEN /\ bg_panicked' = TRUE
            /\ bg_last' = Panic("peek", g)
            /\ UNCHANGED <<bg_state, bg_groups>>
       ELSE /\ bg_last' = Call("peek", g, PeekValue(GroupState(g)[1]))
            /\ bg_state' = CellAfter(g)
            /\ bg_groups' = [bg_groups EXCEPT
                                ![g].curr_state = GroupState(g)]
            /\ UNCHANGED bg_panicked
    /\ UNCHANGED bg_stream
    /\ UNCHANGED <<early_vars, par_vars>>

\* Drop for ChromGroup
ChromGroupDrop(g) ==
    /\ ~bg_panicked
    /\ bg_groups[g].live
    /\ bg_state' = IF bg_groups[g].curr_state # <<>>
                   THEN bg_groups[g].curr_state ELSE bg_state
    /\ bg_groups' = [bg_groups EXCEPT
                        ![g] = [@ EXCEPT !.curr_state = <<>>, !.live = FALSE]]
    /\ bg_last' = Call("drop", g, <<>>)
    /\ UNCHANGED <<bg_stream, bg_panicked>>
    /\ UNCHANGED <<early_vars, par_vars>>

InitGraph ==
    /\ ChromIdle
    /\ WriteIdle
    /\ PipeIdle
    /\ BufferIdle
    /\ TreeIdle
    /\ BedIdle
    /\ WriteFieldsIdle
    /\ ChromTreeIdle
    /\ SourceIdle
    /\ SchedIdle
    /\ ParIdle
    /\ \E n \in 0..MaxGraphRecs :
           bg_stream \in BedStreams(n, ParserChromNames)
    /\ bg_state = BedGraphParserNew
    /\ bg_groups = <<>>
    /\ bg_panicked = FALSE
    /\ bg_last = Call("new", 0, <<>>)

GroupValuesNext == \E g \in DOMAIN bg_groups : ChromGroupNext(g)
GroupValuesPeek == \E g \in DOMAIN bg_groups : ChromGroupPeek(g)
GroupValuesDrop == \E g \in DOMAIN bg_groups : ChromGroupDrop(g)

NextGraph ==
    \/ BedGraphParserNext
    \/ GroupValuesNext
    \/ GroupValuesPeek
    \/ GroupValuesDrop

SpecGraph == InitGraph /\ [][NextGraph]_vars

\* ------------------------------------------------------------ claims: C1

\* The input as far as the source was read: the records returned by next()
\* followed by the record peek() shows.
InputRead == consumed \o lookahead

\* Record i of inp breaks one of the three conditions of the claim.
Violates(inp, i) ==
    \/ inp[i].start > inp[i].end
    \/ inp[i].end > ChromLength
    \/ i < Len(inp) /\ inp[i].end > inp[i + 1].start

ViolatingRecords == {i \in 1..Len(consumed) : Violates(InputRead, i)}

\* C1: process_chrom returns Err(InvalidInput) if and only if some record has
\* start > end, or end > chrom_length, or end > the start of the record that
\* follows it; the error is raised at the first such record (the records
\* before it were all accepted), and with no such record it returns Ok.
C1_InvalidInputIffViolation ==
    /\ (result = "InvalidInput") <=> (ViolatingRecords # {})
    /\ result = "InvalidInput" => ViolatingRecords = {Len(consumed)}
    /\ result = "Ok" =>
          /\ lookahead = <<>>
          /\ \A i \in 1..Len(InputRead) : ~Violates(InputRead, i)

\* C1 witness: the second record is well-formed and inside the chromosome but
\* overlaps the third, and process_chrom has returned InvalidInput there.
C1_Witness ==
    /\ result = "InvalidInput"
    /\ Len(consumed) = 2
    /\ lookahead # <<>>
    /\ consumed[2].start <= consumed[2].end
    /\ consumed[2].end <= ChromLength
    /\ consumed[2].end > lookahead[1].start

\* ------------------------------------------------------------ claims: C2

\* C2: after a successful write the total summary equals the statistics of
\* the input records of all chromosomes: bases_covered is the sum of
\* end - start, min_val and max_val the least and greatest value, sum the sum
\* of (end - start) * value, whatever items_per_slot, initial_zoom_size and
\* max_zooms are.
C2_TotalSummaryIsRawStatistics ==
    write_state = "Ok" =>
        /\ raw # <<>>
        /\ total[1].bases_covered = raw[1].bases_covered
        /\ total[1].min_val = raw[1].min_val
        /\ total[1].max_val = raw[1].max_val
        /\ total[1].sum = raw[1].sum

\* C2 witness: a write of two chromosomes has succeeded, with two records in
\* the second one and the least and the greatest value in different
\* chromosomes.
C2_Witness ==
    /\ write_state = "Ok"
    /\ chroms_started = 2
    /\ Len(consumed) = 2
    /\ total[1].min_val < summary.min_val
    /\ total[1].bases_covered > summary.bases_covered
    /\ summary.bases_covered > 0

\* ------------------------------------------------------------ claims: C3

RECURSIVE Concat(_)
Concat(ss) == IF ss = <<>> THEN <<>> ELSE Head(ss) \o Concat(Tail(ss))

\* C3: a valid chromosome of n >= 1 records with items_per_slot = k is
\* dispatched as exactly ceil(n/k) primary sections; every section but the
\* last holds k records, the last holds 1..k, and the sections concatenated
\* in dispatch order are the input records.
C3_PrimarySections ==
    (result = "Ok" /\ Len(consumed) >= 1) =>
        LET n == Len(consumed)
            k == options.items_per_slot
        IN /\ Len(ftx) = (n + k - 1) \div k
           /\ \A j \in 1..Len(ftx) :
                 IF j < Len(ftx) THEN Len(ftx[j]) = k
                 ELSE Len(ftx[j]) >= 1 /\ Len(ftx[j]) <= k
           /\ Concat(ftx) = consumed
           /\ items = <<>>

\* C3 witness: three records with items_per_slot = 2 gave a full section
\* and a last section of one record.
C3_Witness ==
    /\ result = "Ok"
    /\ options.items_per_slot = 2
    /\ Len(consumed) = 3
    /\ Len(ftx) = 2
    /\ Len(ftx[1]) = 2
    /\ Len(ftx[2]) = 1

\* ------------------------------------------------------------ claims: C4

RECURSIVE SumBases(_)
SumBases(recs) ==
    IF recs = <<>> THEN 0
    ELSE Head(recs).summary.bases_covered + SumBases(Tail(recs))

RECURSIVE SumLengths(_)
SumLengths(recs) ==
    IF recs = <<>> THEN 0
    ELSE (Head(recs).end - Head(recs).start) + SumLengths(Tail(recs))

\* The zoom records emitted for level i, in emission order.
ZoomRecordsSent(i) == Concat(zooms_channels[i])

\* C4: for an accepted chromosome and every zoom level, the bases_covered of
\* the zoom records emitted for the level add up to the chromosome's primary
\* bases_covered, the sum of end - start over its records.
C4_ZoomBasesEqualPrimary ==
    result = "Ok" =>
        \A i \in 1..options.max_zooms :
            SumBases(ZoomRecordsSent(i)) = SumLengths(consumed)

\* ------------------------------------------------------------ claims: C5

\* Every zoom record level i holds or has sent: the sent sections, the
\* records buffer and the open live record.
ZoomRecordsOf(i) ==
    ZoomRecordsSent(i) \o zoom_items[i].records \o zoom_items[i].live_info

\* C5: every zoom record of a level of resolution r, pushed or still the
\* open live record, has start <= end and end - start <= r.
C5_ZoomRecordWithinWindow ==
    \A i \in 1..options.max_zooms :
        \A j \in 1..Len(ZoomRecordsOf(i)) :
            LET rec == ZoomRecordsOf(i)[j] IN
            /\ rec.start <= rec.end
            /\ rec.end - rec.start <= zoom_items[i].size

\* C5 witness: a record spanning more than one window of the first level has
\* been processed, leaving a full window and a shorter one.
C5_Witness ==
    /\ result = "Ok"
    /\ \E j \in 1..Len(ZoomRecordsSent(1)) :
          ZoomRecordsSent(1)[j].end - ZoomRecordsSent(1)[j].start
            = zoom_items[1].size
    /\ \E j \in 1..Len(ZoomRecordsSent(1)) :
          ZoomRecordsSent(1)[j].end - ZoomRecordsSent(1)[j].start
            < zoom_items[1].size
    /\ \E j \in 1..Len(consumed) :
          consumed[j].end - consumed[j].start > zoom_items[1].size

\* ------------------------------------------------------------ claims: C6

\* C6: within one stream the sections are written in the order the
\* processor sent them, whichever order the encoder tasks finish in: the
\* i-th payload written and the i-th index entry are those of the i-th
\* section sent.
C6_WrittenInDispatchOrder ==
    \A c \in Chroms :
        /\ \A i \in DOMAIN sec_idx[c] : sec_idx[c][i].sec = i
        /\ \A i \in DOMAIN buf[c].temp : buf[c].temp[i].sec = i
        /\ Len(buf[c].temp) = Len(sec_idx[c])

\* The encoder of the second section finished before that of the first,
\* and both sections have been written.
C6_Witness ==
    /\ Len(encoded[1]) >= 2
    /\ encoded[1][1].sec = 2
    /\ Len(buf[1].temp) >= 2

\* ------------------------------------------------------------ claims: C7

SectionBlocks == SelectSeq(file, LAMBDA b : b.kind = "section")

\* C7: in the output the primary sections of the chromosome the iterator
\* returned K-th all lie before those of the (K+1)-th, each chromosome's in
\* the order sent, and once write_vals has returned every section sent is
\* there exactly once.
C7_ChromosomesInReturnOrder ==
    /\ \A i, j \in DOMAIN SectionBlocks :
          i < j => \/ SectionBlocks[i].chrom < SectionBlocks[j].chrom
                   \/ /\ SectionBlocks[i].chrom = SectionBlocks[j].chrom
                      /\ SectionBlocks[i].sec < SectionBlocks[j].sec
    /\ coord_pc \in {"assemble", "done"} =>
          \A c \in 1..n_chroms : \A k \in 1..n_sent[c] :
              \E i \in DOMAIN SectionBlocks :
                  SectionBlocks[i].chrom = c /\ SectionBlocks[i].sec = k

\* The second chromosome's processor has produced all its sections and
\* returned while the first chromosome, attached to the file, is still
\* producing.
C7_Witness ==
    /\ cur_chrom = 1
    /\ coord_pc = "await"
    /\ proc[1] = "running"
    /\ file # <<>>
    /\ proc[2] = "done"
    /\ buf[2].temp # <<>>

\* ------------------------------------------------------------ claims: C9

\* The offset in the file of its i-th block.
BlockOffset(i) == PreData + Bytes(SubSeq(file, 1, i - 1))

\* The leaf records the offset and size at which its section lies.
LeafAtSection(leaf) ==
    \E i \in DOMAIN file :
        /\ file[i].kind = leaf.kind
        /\ file[i].chrom = leaf.chrom
        /\ file[i].sec = leaf.sec
        /\ leaf.offset = BlockOffset(i)
        /\ leaf.size = file[i].size

\* The first leaf is at the start of the data region, each following one at
\* the previous offset plus the previous size.
LeavesChained(ls, data_start) ==
    \A i \in DOMAIN ls :
        ls[i].offset = IF i = 1 THEN data_start
                       ELSE ls[i - 1].offset + ls[i - 1].size

PrimaryLeavesRight ==
    /\ \A i \in DOMAIN leaves : LeafAtSection(leaves[i])
    /\ LeavesChained(leaves, PreData)

ZoomLeavesRight ==
    zoom_entries # <<>> =>
        /\ \A i \in DOMAIN zoom_leaves : LeafAtSection(zoom_leaves[i])
        /\ LeavesChained(zoom_leaves, zoom_entries[1].data_offset)

\* C9: every leaf of the primary R-tree and of each kept zoom R-tree
\* records the offset and size at which its section was written, the
\* offsets running on from the start of the data region across chromosomes.
C9_LeavesRecordSectionOffsets ==
    coord_pc = "done" => PrimaryLeavesRight /\ ZoomLeavesRight

\* ------------------------------------------------------------ claims: C8

\* C8: whatever the interleaving of the producer's writes with the switch,
\* the destination returned holds its previous content followed by every
\* byte the producer wrote, in the order written; and while the buffer is
\* attached the destination holds exactly that much of it.
C8_DestinationHoldsBytesInOrder ==
    /\ tfb_pc = "returned" => tfb_dest = tfb_prev \o tfb_out
    /\ tfb_pc = "await_file" => tfb_dest = tfb_prev \o tfb_out

\* The destination, not empty before, has been returned; the producer wrote
\* some of its bytes before the switch, which copied them, and some after.
C8_Witness ==
    /\ tfb_pc = "returned"
    /\ Len(tfb_prev) > 0
    /\ tfb_flushed > 0
    /\ tfb_flushed < Len(tfb_out)

\* ----------------------------------------------------------- claims: C10

\* C10: the total section count get_rtreeindex returns is the number of
\* sections in the section stream.
C10_TotalSectionsIsStreamLength ==
    tree_out # <<>> => tree_out[1].total_sections = Len(tree_sections)

\* ----------------------------------------------------------- claims: C11

\* The nodes of a written block, in order.
BlockNodes(b) == [i \in DOMAIN b.entries |-> b.entries[i].node]

\* The positions at which a block holding exactly the nodes `children` lies.
BlockPositions(children) ==
    {tree_written[1].blocks[j].pos : j \in
        {k \in DOMAIN tree_written[1].blocks :
            BlockNodes(tree_written[1].blocks[k]) = children}}

\* C11: every non-leaf entry written holds as child_offset the file
\* position of the node block that holds its children.
C11_ChildOffsetIsChildBlockPosition ==
    tree_written # <<>> =>
        \A j \in DOMAIN tree_written[1].blocks :
            \A i \in DOMAIN tree_written[1].blocks[j].entries :
                LET e == tree_written[1].blocks[j].entries[i]
                IN  e.node.kind = "NonLeaf" =>
                        BlockPositions(e.node.children) = {e.child_offset}

\* ----------------------------------------------------------- claims: C12

\* (c1, b1) <= (c2, b2) in the lexicographic order of (chrom, base).
LexLE(c1, b1, c2, b2) == c1 < c2 \/ (c1 = c2 /\ b1 <= b2)

\* The interval of p contains the interval of c.
IntervalContains(p, c) ==
    /\ LexLE(p.start_chrom_idx, p.start_base, c.start_chrom_idx, c.start_base)
    /\ LexLE(c.end_chrom_idx, c.end_base, p.end_chrom_idx, p.end_base)

\* The nodes of the tree: each is an entry of one written block.
WrittenNodes ==
    UNION {{b.entries[i].node : i \in DOMAIN b.entries} :
              b \in {tree_written[1].blocks[j] :
                        j \in DOMAIN tree_written[1].blocks}}

IntervalsContain ==
    /\ \A n \in WrittenNodes : \A i \in DOMAIN n.children :
          IntervalContains(n, n.children[i])
    /\ \A i \in DOMAIN tree_sections :
          IntervalContains(tree_written[1].preamble,
                           LeafNode(tree_sections[i]))

\* No section of the stream reaches into the next one on its chromosome:
\* what process_chrom lets through.
SectionsDisjoint ==
    \A i \in 1..(Len(tree_sections) - 1) :
        tree_sections[i].chrom = tree_sections[i + 1].chrom =>
            tree_sections[i].end <= tree_sections[i + 1].start

RECURSIVE TreeNodes(_)
TreeNodes(nodes) ==
    UNION {{nodes[i]} \cup TreeNodes(nodes[i].children) : i \in DOMAIN nodes}

\* C13: get_rtreeindex returns for every stream and block_size >= 2; the
\* root list and every child list have at most block_size entries, and no
\* non-leaf node has an empty child list.
C13_FanOutBounded ==
    tree_out # <<>> =>
        /\ Len(tree_out[1].nodes) <= block_size
        /\ \A n \in TreeNodes(tree_out[1].nodes) :
              /\ Len(n.children) <= block_size
              /\ n.kind = "NonLeaf" => n.children # <<>>

\* A tree of two or more levels with a full child list and a partial one.
C13_Witness ==
    /\ tree_out # <<>>
    /\ tree_out[1].levels >= 2
    /\ \E n, m \in TreeNodes(tree_out[1].nodes) :
          /\ n.kind = "NonLeaf" /\ Len(n.children) = block_size
          /\ m.kind = "NonLeaf" /\ Len(m.children) < block_size

\* ----------------------------------------------------------- claims: C14

\* The maximal runs of records of one chromosome in recs, in order:
\* [chrom, vals] each.
RECURSIVE Runs(_)
Runs(recs) ==
    IF recs = <<>> THEN <<>>
    ELSE LET rest == Runs(Tail(recs))
             r == Head(recs)
         IN  IF rest # <<>> /\ rest[1].chrom = r.chrom
             THEN <<[chrom |-> r.chrom, vals |-> <<r.v>> \o rest[1].vals]>>
                  \o Tail(rest)
             ELSE <<[chrom |-> r.chrom, vals |-> <<r.v>>]>> \o rest

\* a is a prefix of b.
IsPrefix(a, b) == Len(a) <= Len(b) /\ a = SubSeq(b, 1, Len(a))

\* next_chrom returned None.
NextChromReturnedNone ==
    /\ bp_last.op = "next_chrom"
    /\ ~bp_last.panic
    /\ ~bp_last.err
    /\ bp_last.ret = <<>>

\* C14: when each group is drained with next() and dropped before the
\* next call of next_chrom, the groups are the maximal runs of records of
\* one chromosome, in input order: a drained group holds exactly the
\* values of its run, a group being drained a prefix of them, and when
\* next_chrom returns None there is one group for every run.
C14_GroupsAreMaximalRuns ==
    bp_in_order /\ ~bp_panicked =>
        /\ Len(bp_groups) <= Len(Runs(bed_stream))
        /\ \A g \in DOMAIN bp_groups :
              /\ bp_groups[g].chrom = Runs(bed_stream)[g].chrom
              /\ IsPrefix(bp_groups[g].taken, Runs(bed_stream)[g].vals)
              /\ bp_groups[g].ended =>
                    bp_groups[g].taken = Runs(bed_stream)[g].vals
        /\ NextChromReturnedNone =>
              /\ Len(bp_groups) = Len(Runs(bed_stream))
              /\ GroupsFinished

\* An input of two runs, one of them of two records, was read to its end.
C14_Witness ==
    /\ bp_in_order
    /\ NextChromReturnedNone
    /\ Len(bp_groups) = 2
    /\ Len(bed_stream) = 3
    /\ GroupsFinished

\* ----------------------------------------------------------- claims: C15

\* The call of this step is next() or peek() on the group of the peek()
\* before it.
CallAfterPeek ==
    /\ bp_last.op = "peek" /\ ~bp_last.panic
    /\ bp_last'.op \in {"peek", "next"}
    /\ bp_last'.g = bp_last.g

\* The call of this step is next() or peek() on a group whose next() has
\* returned None.
CallAfterEnd ==
    /\ bp_last'.op \in {"peek", "next"}
    /\ bp_groups[bp_last'.g].ended

EarlierGroups == DOMAIN bp_groups \ {bp_last.g}

\* C16: a call of next_chrom made while a group returned earlier is
\* neither drained nor dropped panics.
C16_SecondIteratorPanics ==
    /\ bp_last.op = "next_chrom"
    /\ \E g \in EarlierGroups : bp_groups[g].live /\ ~bp_groups[g].ended
    => bp_last.panic

\* ----------------------------------------------------------- claims: C17

\* C17: a call of next_chrom made when every group returned earlier is
\* drained or dropped does not panic.
C17_DrainedIsEnough ==
    /\ bp_last.op = "next_chrom"
    /\ \A g \in EarlierGroups : bp_groups[g].ended \/ ~bp_groups[g].live
    => ~bp_last.panic

\* ----------------------------------------------------------- claims: C18

\* The group the last call of next_chrom followed: the one returned
\* before it.
PreviousGroup == bp_last.g - 1

\* The group before the last call of next_chrom was dropped, and no
\* next() has returned a value since it was returned.
DroppedUntaken ==
    /\ bp_last.op = "next_chrom" /\ ~bp_last.panic
    /\ PreviousGroup >= 1
    /\ ~bp_groups[PreviousGroup].live
    /\ bp_groups[PreviousGroup].at = TakenBy(Len(bp_groups))

StartedChrom == adv_result.kind \in {"NewChrom", "NotSorted", "UnknownChrom"}

\* advance left the IdMap and the processors as it found them.
NothingStarted ==
    chrom_ids = adv_result.ids /\ spawned = adv_result.spawned

\* C19: advance returns the error of the sort order exactly when out of
\* order chromosomes are not allowed and the name of the chromosome it
\* started is less than or equal to the name of the one started before, and
\* then assigns no id and spawns no processor.
C19_NotSortedExactlyWhenNotGreater ==
    StartedChrom =>
        /\ adv_result.kind = "NotSorted" <=>
              /\ ~allow_out_of_order_chroms
              /\ adv_result.last # <<>>
              /\ NameLeq(adv_result.chrom, adv_result.last[1])
        /\ adv_result.kind = "NotSorted" => NothingStarted

\* The error was returned for a chromosome whose name is not the one
\* before but less than it, after a chromosome got its id and processor.
C19_Witness ==
    /\ adv_result.kind = "NotSorted"
    /\ adv_result.chrom # adv_result.last[1]
    /\ Len(spawned) >= 1
    /\ Len(chrom_ids) >= 1

\* ----------------------------------------------------------- claims: C20

\* advance started a chromosome chrom_sizes has no length for.
StartedUnknownChrom == StartedChrom /\ adv_result.chrom \notin chrom_map

\* advance returned the error that names the chromosome it started.
NamesUnknownChrom == adv_result.kind = "UnknownChrom"

\* C20 as stated: a chromosome that is not in chrom_sizes makes advance
\* return the error naming it, with no id assigned, no processor spawned
\* and the ids of the earlier chromosomes unchanged.
C20_UnknownChromNamed ==
    StartedUnknownChrom => NamesUnknownChrom /\ NothingStarted

\* C20 amended: a chromosome that is not in chrom_sizes makes advance
\* return an InvalidInput error, the one naming it unless it is the one of
\* the sort order, with no id assigned, no processor spawned and the ids of
\* the earlier chromosomes unchanged.
C20_UnknownChromRejected ==
    StartedUnknownChrom =>
        /\ adv_result.kind \in {"UnknownChrom", "NotSorted"}
        /\ adv_result.kind = "NotSorted" =>
              /\ ~allow_out_of_order_chroms
              /\ adv_result.last # <<>>
              /\ NameLeq(adv_result.chrom, adv_result.last[1])
        /\ NothingStarted

\* The error named a chromosome started behind one that has an id.
C20_Witness ==
    /\ StartedUnknownChrom
    /\ NamesUnknownChrom
    /\ Len(chrom_ids) >= 1
    /\ Len(spawned) >= 1

\* ----------------------------------------------------------- claims: C21

\* The distinct names of the chromosomes started, in the order in which
\* each appeared first.
RECURSIVE FirstAppearances(_)
FirstAppearances(started_chroms) ==
    IF started_chroms = <<>> THEN <<>>
    ELSE LET before == FirstAppearances(
                           SubSeq(started_chroms, 1, Len(started_chroms) - 1))
             name == started_chroms[Len(started_chroms)].chrom
         IN  IF \E i \in DOMAIN before : before[i] = name THEN before
             ELSE Append(before, name)

\* C21: the name that appeared k-th has the id k - 1, no two names share an
\* id, every processor was given the id of its chromosome's first
\* appearance, and write_vals' own id of a chromosome is the id its
\* processor was given.
C21_IdsDenseInFirstAppearanceOrder ==
    /\ chrom_ids = FirstAppearances(spawned)
    /\ \A i, j \in DOMAIN chrom_ids : chrom_ids[i] = chrom_ids[j] => i = j
    /\ \A k \in DOMAIN spawned :
          /\ chrom_ids[spawned[k].chrom_id + 1] = spawned[k].chrom
          /\ IdOf(real_ids, spawned[k].chrom) = spawned[k].chrom_id

\* Three chromosomes were started, the third one under the name and the
\* id of the first.
C21_Witness ==
    /\ Len(spawned) = 3
    /\ Len(chrom_ids) = 2
    /\ spawned[3].chrom_id = 0
    /\ spawned[2].chrom_id = 1

\* ----------------------------------------------------------- claims: C22

\* The byte position of the first block of that kind and chromosome in the file
\* write has written, or <<>> when there is none.
FileBlockAt(kind, chrom) ==
    LET at == {i \in DOMAIN fw_file :
                  fw_file[i].kind = kind /\ fw_file[i].chrom = chrom}
    IN  IF at = {} THEN <<>>
        ELSE <<Bytes(SubSeq(fw_file, 1,
                            (CHOOSE i \in at : \A j \in at : i <= j) - 1))>>

\* The levels write_zooms does not skip, in order.
KeptLevels ==
    SelectSeq([i \in DOMAIN fw_vals[1].zooms |-> i],
              LAMBDA i : ZoomKept(fw_vals[1].zooms[i].size,
                                  fw_header.data_size))

\* The kept levels write_zooms gets to before it stops.
WrittenLevels ==
    SubSeq(KeptLevels, 1, Min(Len(KeptLevels), MAX_ZOOM_LEVELS))

\* Exactly these levels have data, an R-tree and a header entry
\* (reduction_level, 0, data_offset, index_offset), in this order.
ZoomsWrittenAre(levels) ==
    /\ \A i \in DOMAIN fw_vals[1].zooms :
           (\E k \in DOMAIN levels : levels[k] = i)
             <=> /\ FileBlockAt("zoom", i) # <<>>
                 /\ FileBlockAt("zoom_rtree", i) # <<>>
    /\ \A i \in DOMAIN fw_vals[1].zooms :
           FileBlockAt("zoom", i) = <<>> <=> FileBlockAt("zoom_rtree", i) = <<>>
    /\ Len(fw_header.zoom_entries) = Len(levels)
    /\ \A k \in DOMAIN levels :
           fw_header.zoom_entries[k]
             = <<fw_vals[1].zooms[levels[k]].reduction_level, 0,
                 FileBlockAt("zoom", levels[k])[1],
                 FileBlockAt("zoom_rtree", levels[k])[1]>>
    /\ \A k \in DOMAIN fw_header.zoom_entries :
           k > 1 => fw_header.zoom_entries[k - 1][1]
                      < fw_header.zoom_entries[k][1]
    /\ fw_header.zoom_levels = Len(fw_header.zoom_entries)

\* C22 as stated: write_zooms omits exactly the levels whose data is
\* larger than data_size / 2; every other level is written with one header
\* entry (reduction_level, 0, data_offset, index_offset), entries are in
\* increasing reduction_level order and zoom_levels counts them.
C22_EveryKeptLevelWritten ==
    fw_pc = "done" => ZoomsWrittenAre(KeptLevels)

\* C22, amended: write_zooms omits the levels whose data is larger than
\* data_size / 2 and, of the other levels, writes the first
\* MAX_ZOOM_LEVELS only; each written level has one header entry
\* (reduction_level, 0, data_offset, index_offset), entries are in
\* increasing reduction_level order and zoom_levels counts them.
C22_FirstKeptLevelsWritten ==
    fw_pc = "done" => ZoomsWrittenAre(WrittenLevels)

\* A finished file with a skipped level between two written ones.
C22_Witness ==
    /\ fw_pc = "done"
    /\ Len(WrittenLevels) >= 2
    /\ \E i \in DOMAIN fw_vals[1].zooms :
           /\ ~ZoomKept(fw_vals[1].zooms[i].size, fw_header.data_size)
           /\ WrittenLevels[1] < i
           /\ i < WrittenLevels[2]

\* ----------------------------------------------------------- claims: C24

\* The layout of the finished file when the zoom entries are reserved for
\* `levels` levels.
FixedLayout(levels) ==
    /\ fw_header.header_end = 64
    /\ fw_header.total_summary_offset = 64 + 24 * levels
    /\ fw_header.total_summary_at = fw_header.total_summary_offset
    /\ FileBlockAt("summary", 0) = <<fw_header.total_summary_offset>>
    /\ fw_header.full_data_offset = fw_header.total_summary_offset + 40
    /\ fw_header.section_count_at = fw_header.full_data_offset
    /\ FileBlockAt("count", 0) = <<fw_header.full_data_offset>>
    /\ fw_vals[1].sections # <<>>
         => FileBlockAt("data", 0) = <<fw_header.full_data_offset + 8>>

\* C24 as stated: in the finished file the header fields end at byte 64,
\* total_summary_offset = 64 + 24 * max_zooms, full_data_offset =
\* total_summary_offset + 40, the section count is at full_data_offset and
\* the first section payload at full_data_offset + 8.
C24_LayoutByMaxZooms ==
    fw_pc = "done" => FixedLayout(fw_options.max_zooms)

\* C24, amended: in the finished file the header fields end at byte 64,
\* total_summary_offset = 64 + 24 * MAX_ZOOM_LEVELS whatever max_zooms is,
\* full_data_offset = total_summary_offset + 40, the section count is at
\* full_data_offset and the first section payload at full_data_offset + 8.
C24_LayoutByMaxZoomLevels ==
    fw_pc = "done" => FixedLayout(MAX_ZOOM_LEVELS)

\* A finished file with section data, written with max_zooms other than
\* MAX_ZOOM_LEVELS.
C24_Witness ==
    /\ fw_pc = "done"
    /\ fw_options.max_zooms # MAX_ZOOM_LEVELS
    /\ fw_vals[1].sections # <<>>

\* ----------------------------------------------------------- claims: C23

\* The positions of the zoom sections in the finished file.
ZoomBlockAt == {i \in DOMAIN file : file[i].kind = "zoom"}

\* The zoom sections are next to each other, ordered by chromosome and
\* then by section, behind the primary sections, the chromosome tree and
\* the primary index.
ZoomBlocksContiguous ==
    /\ \A i, k \in ZoomBlockAt : \A j \in i..k : j \in ZoomBlockAt
    /\ \A i, j \in ZoomBlockAt :
           i < j => \/ file[i].chrom < file[j].chrom
                    \/ /\ file[i].chrom = file[j].chrom
                       /\ file[i].sec < file[j].sec
    /\ \A i \in ZoomBlockAt : \A j \in DOMAIN file :
           file[j].kind \in {"section", "chrom_tree"} => j < i
    /\ \A i \in ZoomBlockAt :
           \E j \in 1..(i - 1) : file[j].kind = "rtree"

UncompressedLengths ==
    {fw_vals[1].encoded[i].bytes : i \in DOMAIN fw_vals[1].encoded}

\* The bytes of a zoom section of at most items_per_slot records before
\* compression.
ZoomUncompressedLengths ==
    {(4 + 4 + 4 + 4 + 4 + 4 + 4 + 4) * n : n \in 1..fw_options.items_per_slot}

\* C25: with compress the uncompress_buf_size of the header is the largest
\* uncompressed length of a section of the file (24 + 12 * item_count for
\* a primary section, 32 * record_count for a zoom section); without
\* compress it is 0.
C25_BufSizeIsLargestSection ==
    (fw_pc = "done" /\ fw_vals[1].sections # <<>>) =>
        IF fw_options.compress
        THEN /\ fw_header.uncompress_buf_size
                  \in UncompressedLengths \cup ZoomUncompressedLengths
             /\ \A l \in UncompressedLengths :
                    l <= fw_header.uncompress_buf_size
        ELSE fw_header.uncompress_buf_size = 0

\* ----------------------------------------------------------- claims: C26

\* The name a key holds: its bytes without the padding.
NameOfKey(key) == SelectSeq(key, LAMBDA b : b # 0)

\* The tree has one item for each chromosome of the id map and no other,
\* each with the id of the map and the length of chrom_sizes; it is one
\* leaf node, item_count is the number of items and block_size is
\* max(256, item_count).
TreeHoldsIdMap(tree) ==
    /\ Len(tree.items) = Cardinality(DOMAIN ct_ids)
    /\ Cardinality({tree.items[i].key : i \in DOMAIN tree.items})
         = Len(tree.items)
    /\ \A i \in DOMAIN tree.items :
           LET name == NameOfKey(tree.items[i].key)
           IN  /\ name \in DOMAIN ct_ids
               /\ Len(tree.items[i].key) = tree.key_size
               /\ tree.items[i].id = ct_ids[name]
               /\ tree.items[i].length = ct_sizes[name]
    /\ tree.is_leaf = 1
    /\ tree.item_count = Len(tree.items)
    /\ tree.block_size = Max(256, tree.item_count)

BedGraphWritten == write_state = "Ok" /\ chroms_started = Len(SmallBedGraph)

\* C27 as stated: for small.bedGraph the total summary has bases_covered =
\* 600, min = max = 0.5, sum = 300.0 and sum_squares = 150.0 (in halves
\* and quarters: 1, 600 and 600).
C27_SummaryOfSixHundredBases ==
    BedGraphWritten =>
        /\ total[1].bases_covered = 600
        /\ total[1].min_val = 1
        /\ total[1].max_val = 1
        /\ total[1].sum = 2 * 300
        /\ total[1].sum_squares = 4 * 150

\* C27, amended: a record [1,100) covers 99 bases, so for small.bedGraph
\* the total summary has bases_covered = 594, min = max = 0.5, sum = 297.0
\* and sum_squares = 148.5 (in halves and quarters: 1, 594 and 594).
C27_SummaryOfSixRecords ==
    BedGraphWritten =>
        /\ total[1].bases_covered = 594
        /\ total[1].min_val = 1
        /\ total[1].max_val = 1
        /\ total[1].sum = 2 * 297
        /\ total[1].sum_squares = 4 * 148 + 2

\* The total summary of the three chromosomes has been returned.
C27_Witness ==
    /\ BedGraphWritten
    /\ total # <<>>
    /\ chrom_id = 2
    /\ raw[1].bases_covered = total[1].bases_covered

\* ----------------------------------------------------------- claims: C28

\* The records of the input that section i was cut from.
RecordsOfSection(i) ==
    LET before == Len(Concat(SubSeq(ftx, 1, i - 1)))
    IN  SubSeq(consumed, before + 1, before + Len(ftx[i]))

\* Each section starts at its first record's start and ends at its last
\* record's end.
SectionsSpanTheirRecords ==
    \A i \in DOMAIN ftx :
        /\ RecordsOfSection(i) # <<>>
        /\ SectionData(ftx[i]).start = RecordsOfSection(i)[1].start
        /\ SectionData(ftx[i]).end
             = RecordsOfSection(i)[Len(RecordsOfSection(i))].end

\* C28 as stated: for an accepted chromosome every primary section spans
\* its records, and for consecutive sections previous.start < next.start
\* and previous.end <= next.start, zero-length records included.
C28_SectionStartsStrictlyIncrease ==
    result = "Ok" =>
        /\ SectionsSpanTheirRecords
        /\ \A i \in 1..(Len(ftx) - 1) :
               /\ SectionData(ftx[i]).start < SectionData(ftx[i + 1]).start
               /\ SectionData(ftx[i]).end <= SectionData(ftx[i + 1]).start

\* C28, amended: for an accepted chromosome every primary section spans
\* its records, and for consecutive sections previous.start <= next.start
\* and previous.end <= next.start; previous.start < next.start when the
\* previous section holds a record of non-zero length.
C28_SectionStartsIncrease ==
    result = "Ok" =>
        /\ SectionsSpanTheirRecords
        /\ \A i \in 1..(Len(ftx) - 1) :
               /\ SectionData(ftx[i]).start <= SectionData(ftx[i + 1]).start
               /\ SectionData(ftx[i]).end <= SectionData(ftx[i + 1]).start
               /\ (\E k \in DOMAIN ftx[i] : ftx[i][k].start < ftx[i][k].end)
                    => SectionData(ftx[i]).start
                         < SectionData(ftx[i + 1]).start

\* An accepted chromosome of two sections that start at the same
\* position: the first holds two zero-length records.
C28_Witness ==
    /\ result = "Ok"
    /\ Len(ftx) = 2
    /\ Len(ftx[1]) = 2
    /\ \A k \in DOMAIN ftx[1] : ftx[1][k].start = ftx[1][k].end
    /\ SectionData(ftx[1]).start = SectionData(ftx[2]).start
    /\ ftx[2][1].start < ftx[2][1].end

\* ----------------------------------------------------------- claims: C29

\* The error elements the stream has yielded: each was returned to
\* process_chrom by the peek() or next() call that took it.
ErrorsYielded == {i \in 1..src_pos : IsError(src_stream[i])}

\* The number of records the stream holds before element i.
RecordsBefore(i) == Cardinality({j \in 1..(i - 1) : ~IsError(src_stream[j])})

\* C29: no source error is silenced: once the record stream has yielded an
\* error for the chromosome, through peek() or through next(), process_chrom
\* never returns Ok and never processes a record that follows the error.
C29_NoSourceErrorSilenced ==
    ErrorsYielded # {} =>
        /\ result # "Ok"
        /\ \A i \in ErrorsYielded : Len(consumed) <= RecordsBefore(i)

\* C29, the case of next(): process_chrom has ended with SourceError after
\* next() returned the last of three errors that follow the first record.
C29_NextSeesError ==
    /\ result = "SourceError"
    /\ Len(consumed) = 1
    /\ src_pos = 4

\* ----------------------------------------------------------- claims: C30

\* Every section sent on a channel has been received and written, and no
\* processor is still running.
Drained ==
    \A c \in Chroms :
        /\ chan[c] = <<>>
        /\ Len(sec_idx[c]) = n_sent[c]
        /\ proc[c] # "running"

ReturnsInIndexOrder ==
    \A i \in DOMAIN par_returned :
        par_returned[i] = IF i <= Len(ParIndexed)
                          THEN ParEntry("NewChrom", ParIndexed[i])
                          ELSE ParEntry("Finished", <<>>)

\* The chromosomes started and not yet returned.
StartedAhead == SelectSeq(par_queue, LAMBDA e : e.kind = "NewChrom")

\* At most 4 chromosomes are started beyond the one returned, and while an
\* entry other than NewChrom is queued no chromosome is started.
WindowKept ==
    /\ [](Len(StartedAhead) <= 4 /\ Len(par_queue) <= 4)
    /\ [][(\E i \in DOMAIN par_queue : par_queue[i].kind # "NewChrom")
            => par_started' = par_started]_vars

IndexAscends ==
    \A i \in 1..(Len(ParIndexed) - 1) :
        ~OutOfOrder(ParIndexed[i], ParIndexed[i + 1])

ReturnedAfterFinished ==
    /\ adv_result.kind \notin {"none"}
    /\ "again" \in DOMAIN adv_result
    /\ adv_result.again

\* C32: for BedParserStreamingIterator, calling advance again after it has
\* returned Finished panics: it never returns a second Finished, a NewChrom
\* or an Error.
C32_AdvanceAfterFinishedPanics == ~ReturnedAfterFinished

\* ----------------------------------------------------------- claims: C33

\* The records of s are all different: each starts where the one before
\* it ends, or later, and none is empty.
EachOnce(s) ==
    /\ \A j \in DOMAIN s : s[j].start < s[j].end
    /\ \A j \in 1..(Len(s) - 1) : s[j].end <= s[j + 1].start

\* C33: the assertions records.len() != items_per_slot hold at the start
\* and the end of every iteration, and when process_chrom returns Ok the
\* primary buffer is empty and every zoom level has no live record and an
\* empty records buffer; the dispatched primary sections hold the accepted
\* records once each, and the dispatched zoom sections of a level are
\* non-empty and hold each zoom record of the level once.
C33_NothingLeftBehind ==
    /\ \A i \in 1..options.max_zooms :
          Len(zoom_items[i].records) # options.items_per_slot
    /\ result = "Ok" =>
          /\ items = <<>>
          /\ Concat(ftx) = consumed
          /\ \A j \in DOMAIN ftx : ftx[j] # <<>>
          /\ \A i \in 1..options.max_zooms :
                /\ zoom_items[i].live_info = <<>>
                /\ zoom_items[i].records = <<>>
                /\ \A j \in DOMAIN zooms_channels[i] :
                      /\ zooms_channels[i][j] # <<>>
                      /\ Len(zooms_channels[i][j]) <= options.items_per_slot
                /\ EachOnce(ZoomRecordsSent(i))
                /\ (\E j \in DOMAIN consumed :
                       consumed[j].start < consumed[j].end)
                      => ZoomRecordsSent(i) # <<>>

\* C33 witness: process_chrom returned Ok after three records in sections
\* of two; the first zoom level sent its two records in one full section,
\* the second level sent the one record it had left with the last record.
C33_Witness ==
    /\ result = "Ok"
    /\ Len(consumed) = 3
    /\ options.items_per_slot = 2
    /\ Len(zooms_channels[1]) = 1
    /\ Len(zooms_channels[1][1]) = 2
    /\ Len(zooms_channels[2]) = 1
    /\ Len(zooms_channels[2][1]) = 1
    /\ Len(ftx) = 2

\* ----------------------------------------------------------- claims: C34

\* The records that precede the last one read.
Preceding == SubSeq(consumed, 1, Len(consumed) - 1)

\* The summary, the primary batch, the primary sections and the zoom
\* records hold the records of recs and nothing else.
HoldOnly(recs) ==
    /\ summary.total_items = Len(recs)
    /\ summary.bases_covered = SumLengths(recs)
    /\ Concat(ftx) \o items = recs
    /\ \A i \in 1..options.max_zooms :
          \A j \in DOMAIN ZoomRecordsOf(i) :
              /\ recs # <<>>
              /\ ZoomRecordsOf(i)[j].end <= recs[Len(recs)].end

\* C34: when process_chrom rejects a record with InvalidInput, the step
\* that rejects it changes neither the summary nor the primary batch nor a
\* zoom record and sends nothing on a channel; what was summed, batched and
\* dispatched holds only the records that precede the rejected one, and no
\* step follows the error.
C34_RejectedRecordLeavesNoTrace ==
    /\ [](result = "InvalidInput" => HoldOnly(Preceding))
    /\ [][result' = "InvalidInput" =>
            /\ result = "running"
            /\ UNCHANGED <<summary, items, zoom_items, ftx, zooms_channels>>
         ]_vars

\* C34 witness: the second record was rejected for overlapping the one
\* behind it, after a primary section and a zoom section had been sent.
C34_Witness ==
    /\ result = "InvalidInput"
    /\ Len(consumed) = 2
    /\ lookahead # <<>>
    /\ consumed[2].end > lookahead[1].start
    /\ consumed[2].start <= consumed[2].end
    /\ ftx # <<>>
    /\ zooms_channels[1] # <<>>

\* ------------------------------------------------------------ claims: C35

\* The groups whose curr_state holds the parser state.
Holding == {g \in DOMAIN bp_groups : bp_groups[g].curr_state # <<>>}

\* The holders of the parser state: the shared cell and the groups.
Holders == (IF bp_state # <<>> THEN 1 ELSE 0) + Cardinality(Holding)

\* A step that drops a group holding the state puts that state into the
\* shared cell.
DropPutsBack ==
    \A g \in Holding :
        (bp_last'.op = "drop" /\ bp_last'.g = g /\ ~bp_groups'[g].live)
            => /\ bp_state' = bp_groups[g].curr_state
               /\ bp_groups'[g].curr_state = <<>>

\* C35: in every reachable state the parser state is held by exactly one
\* holder, the shared cell of the BedParser or the curr_state of exactly
\* one BedChromData, never both and never neither, and dropping the
\* BedChromData that holds it puts it back into the shared cell.
C35_ExactlyOneHolder == [](Holders = 1) /\ [][DropPutsBack]_vars

\* next_chrom returned the error of a line that does not parse, and
\* neither the shared cell nor a group holds the parser state.
C35_StateLost ==
    /\ bp_last.op = "next_chrom"
    /\ bp_last.err
    /\ Holders = 0

\* ------------------------------------------------------------ claims: C36

\* The stream is exhausted and no record is buffered.
InputExhausted ==
    /\ bp_state # <<>>
    /\ bp_state[1].pos = Len(bed_stream)
    /\ bp_state[1].next_val = <<>>

\* C36: next_chrom returns None only when the underlying stream is
\* exhausted and no record is buffered, after any sequence of next, peek
\* and drop on the earlier groups.
C36_NoneOnlyAtEndOfInput == NextChromReturnedNone => InputExhausted

\* A group took the one record of its chromosome with next() and was
\* dropped before it observed None; next_chrom then returned None with
\* the record of the following chromosome buffered.
C36_NoneBeforeEnd ==
    /\ NextChromReturnedNone
    /\ Len(bp_groups) = 1
    /\ bp_groups[1].taken = <<1>>
    /\ ~bp_groups[1].ended
    /\ ~bp_groups[1].live
    /\ bp_state[1].next_val # <<>>

\* ------------------------------------------------------------ claims: C37

\* Where block i of the file starts.
BlockStart(i) == Bytes(SubSeq(fw_file, 1, i - 1))

\* The blocks written behind the reserved region: section payloads, the
\* chromosome tree and the R-trees.
PayloadBlocks ==
    {i \in DOMAIN fw_file :
        fw_file[i].kind \in {"data", "chrom_tree", "rtree", "zoom",
                             "zoom_rtree"}}

\* The write p changes a byte of block i.
Touches(p, i) ==
    /\ p.bytes > 0
    /\ fw_file[i].size > 0
    /\ p.at < BlockStart(i) + fw_file[i].size
    /\ BlockStart(i) < p.at + p.bytes

\* The back-patching writes stay in the region reserved before the first
\* section, the zoom entries stay before the total-summary slot, and no
\* payload block is touched.
PatchesInReservedRegion ==
    fw_pc = "done" =>
        /\ \A k \in DOMAIN fw_header.patches :
               fw_header.patches[k].at + fw_header.patches[k].bytes
                   <= fw_header.pre_data
        /\ fw_header.patches[2].at + fw_header.patches[2].bytes
               <= fw_header.total_summary_offset
        /\ fw_header.zoom_entries_end <= fw_header.total_summary_offset
        /\ \A k \in DOMAIN fw_header.patches : \A i \in PayloadBlocks :
               ~Touches(fw_header.patches[k], i)

\* The end of write adds the 4 bytes of the magic and nothing else.
OnlyTrailerAdded ==
    fw_pc = "header" /\ fw_pc' = "done"
        => /\ fw_file' = Append(fw_file, MagicTrailer)
           /\ Bytes(fw_file') = Bytes(fw_file) + 4

\* C37: the back-patching writes at the end of write change only bytes of
\* the region reserved before the first section: the kept zoom entries
\* never extend beyond the reserved zoom-entry array into the
\* total-summary slot, no byte of a section payload, of the chromosome
\* tree or of an R-tree is changed, and the only bytes added are the
\* 4-byte magic trailer at the end of the file.
C37_BackPatchesStayInReservedRegion ==
    []PatchesInReservedRegion /\ [][OnlyTrailerAdded]_vars

\* A finished file of two sections whose zoom entries fill the reserved
\* array.
C37_Witness ==
    /\ fw_pc = "done"
    /\ Len(fw_vals[1].sections) = 2
    /\ Len(fw_zoom_entries) = MAX_ZOOM_LEVELS
    /\ fw_header.zoom_entries_end = fw_header.total_summary_offset
    /\ fw_file[Len(fw_file)] = MagicTrailer

\* ------------------------------------------------------------ claims: C38

\* The chromosome ids of the sections along the file: every processor
\* writes its sections with the id do_read handed to it, and the sections
\* of the chromosomes follow each other in the order they were started.
IdsAlongFile == [i \in DOMAIN spawned |-> spawned[i].chrom_id]

\* C38: for every input the writer accepts, with either setting of
\* allow_out_of_order_chroms, the chromosome ids never decrease along the
\* section index handed to the R-tree builder: the sections of one
\* chromosome id are never separated by sections of another id.
C38_ChromIdsNeverDecrease ==
    adv_result.kind = "Finished" =>
        \A i, j \in DOMAIN IdsAlongFile :
            i < j => IdsAlongFile[i] <= IdsAlongFile[j]

\* With allow_out_of_order_chroms set, an input that returns to its first
\* chromosome was accepted, and the id 0 follows the id 1.
C38_IdsDecrease ==
    /\ adv_result.kind = "Finished"
    /\ allow_out_of_order_chroms
    /\ IdsAlongFile = <<0, 1, 0>>

\* ------------------------------------------------------------ claims: C39

\* Every leaf below `trees` lies exactly `level` steps down, and every
\* node list above that depth holds non-leaf nodes only.
RECURSIVE LeavesAtDepth(_, _)
LeavesAtDepth(trees, level) ==
    \A i \in DOMAIN trees :
        IF level = 0 THEN trees[i].kind = "Leaf"
        ELSE /\ trees[i].kind = "NonLeaf"
             /\ LeavesAtDepth(trees[i].children, level - 1)

\* C39: in the tree returned by get_rtreeindex every leaf lies exactly
\* `levels` steps below the root list and every node list above that
\* depth contains only non-leaf nodes, so calculate_offsets and
\* write_tree do not panic for a leaf found at a level > 0.
C39_LeavesAtDepthLevels ==
    /\ tree_out # <<>> =>
          LeavesAtDepth(tree_out[1].nodes, tree_out[1].levels)
    /\ tree_written # <<>> => "panic" \notin DOMAIN tree_written[1]

\* The index of five sections under block_size 2 is written: two full
\* groups and a remainder of one leaf, three levels above the leaves.
C39_Witness ==
    /\ tree_written # <<>>
    /\ block_size = 2
    /\ Len(tree_sections) = 5
    /\ tree_out[1].levels = 3

\* ------------------------------------------------------------ claims: C40

\* The call of this step is next() on the group of the peek() before it.
NextAfterPeek ==
    /\ bg_last.op = "peek" /\ ~bg_last.panic
    /\ bg_last'.op = "next" /\ ~bg_last'.panic
    /\ bg_last'.g = bg_last.g

\* C40: for bedgraphparser::ChromGroup, peek() returns the value that the
\* immediately following next() returns, in every state of the group,
\* also on a group freshly returned by BedGraphParser::next and on a
\* chromosome with a single record.
C40_PeekIsTheFollowingNext ==
    [][NextAfterPeek => bg_last'.ret = bg_last.ret]_vars

\* On a group freshly returned for a chromosome of two records, peek()
\* returned the second record and the next() behind it the first.
C40_PeekSkipsCurrent ==
    /\ bg_last.op = "next"
    /\ bg_last.g = 1
    /\ bg_last.ret = <<1>>
    /\ bg_groups[1].curr_state # <<>>
    /\ bg_groups[1].curr_state[1].next_val = <<2>>
    /\ bg_groups[1].curr_state[1].next_chrom.kind = "Same"
====
